---- MODULE Spec2Model ----
(***************************************************************************)
(* Model of the parca debug-info command line client (package main).       *)
(*                                                                         *)
(* The upload command is modelled as a sequential program: a program       *)
(* counter pc walks through the collect phase (one of the two branches of  *)
(* run), extractAll, the size check of the scratch buffers and the upload  *)
(* loop.  The debuginfo store, the transports and the file system are the  *)
(* environment: each call draws its outcome from a small set.  Every       *)
(* protocol step that was performed is appended to trace, with its         *)
(* request and its outcome.                                                *)
(***************************************************************************)
EXTENDS Integers, Sequences, FiniteSets, TLC

\* Longest list of paths given on the command line.
MaxPaths == 2

(***************************************************************************)
(* The file system the command runs against.  One file per case the code   *)
(* distinguishes: exists (os.Open succeeds), elf (elf.Open succeeds),      *)
(* idOk/buildID (buildid.FromELF), data (the bytes on disk), and what the  *)
(* reducer (Extractor.OnlyKeepDebug) does with it: the bytes it writes,    *)
(* the offset at which it leaves the destination, and whether it fails;    *)
(* stripped is what Extractor.StripDebug writes instead.                   *)
(***************************************************************************)
PathNames == {"a", "b", "c", "z", "e", "r", "m", "g"}

FS ==
    [p \in PathNames |->
       CASE p = "a" -> [exists |-> TRUE, elf |-> TRUE, idOk |-> TRUE, buildID |-> "ida",
                        data |-> <<1, 2, 3>>, reduced |-> <<1, 2>>, reducedOff |-> 1,
                        reduceOk |-> TRUE,
                        stripped |-> <<3>>]
         \* another build of the same binary: a different file with the build id of "a"
         [] p = "c" -> [exists |-> TRUE, elf |-> TRUE, idOk |-> TRUE, buildID |-> "ida",
                        data |-> <<1, 2, 3, 4>>, reduced |-> <<1, 4>>, reducedOff |-> 2,
                        reduceOk |-> TRUE,
                        stripped |-> <<3, 4>>]
         [] p = "b" -> [exists |-> TRUE, elf |-> TRUE, idOk |-> TRUE, buildID |-> "idb",
                        data |-> <<4, 5>>, reduced |-> <<5>>, reducedOff |-> 1,
                        reduceOk |-> TRUE,
                        stripped |-> <<4>>]
         \* an ELF file the reducer turns into nothing
         [] p = "z" -> [exists |-> TRUE, elf |-> TRUE, idOk |-> TRUE, buildID |-> "idz",
                        data |-> <<7>>, reduced |-> <<>>, reducedOff |-> 0,
                        reduceOk |-> TRUE,
                        stripped |-> <<7>>]
         \* an empty file (not an ELF file)
         [] p = "e" -> [exists |-> TRUE, elf |-> FALSE, idOk |-> FALSE, buildID |-> "",
                        data |-> <<>>, reduced |-> <<>>, reducedOff |-> 0,
                        reduceOk |-> FALSE,
                        stripped |-> <<>>]
         \* an ELF file the reducer fails on, after writing one byte
         [] p = "r" -> [exists |-> TRUE, elf |-> TRUE, idOk |-> TRUE, buildID |-> "idr",
                        data |-> <<8, 8>>, reduced |-> <<8>>, reducedOff |-> 1,
                        reduceOk |-> FALSE,
                        stripped |-> <<8>>]
         \* a path that does not exist
         [] p = "m" -> [exists |-> FALSE, elf |-> FALSE, idOk |-> FALSE, buildID |-> "",
                        data |-> <<>>, reduced |-> <<>>, reducedOff |-> 0,
                        reduceOk |-> FALSE,
                        stripped |-> <<>>]
         \* an ELF file without a build id: buildid.FromELF fails
         [] p = "g" -> [exists |-> TRUE, elf |-> TRUE, idOk |-> FALSE, buildID |-> "",
                        data |-> <<6>>, reduced |-> <<6>>, reducedOff |-> 0,
                        reduceOk |-> TRUE,
                        stripped |-> <<6>>]]

\* flags.Upload.Paths: kong requires at least one path.
PathLists == UNION {[1..n -> PathNames] : n \in 1..MaxPaths}

\* flags.Upload.Type (kong enum).
Types == {"debuginfo", "executable", "sources"}

\* flags.Upload.BuildID: absent ("") or given.
BuildIDFlags == {"", "idx"}

\* The flags of the upload command that the run reads.
\* const LogLevelDebug
LogLevelDebug == "debug"

\* flags.LogLevel (kong enum error, warn, info, debug): the default and the
\* one value the run tests for; error and warn behave as info does.
LogLevels == {"info", LogLevelDebug}

Flags ==
    [NoExtract : BOOLEAN, NoInitiate : BOOLEAN, Force : BOOLEAN,
     Type : Types, BuildID : BuildIDFlags, Paths : PathLists,
     LogLevel : LogLevels]

\* debuginfopb.DebuginfoType
DEBUGINFO_TYPE_DEBUGINFO_UNSPECIFIED == 0
DEBUGINFO_TYPE_EXECUTABLE == 1
DEBUGINFO_TYPE_SOURCES == 2

debuginfoTypeStringToPb(s) ==
    CASE s = "executable" -> DEBUGINFO_TYPE_EXECUTABLE
      [] s = "sources" -> DEBUGINFO_TYPE_SOURCES
      [] OTHER -> DEBUGINFO_TYPE_DEBUGINFO_UNSPECIFIED

\* debuginfopb.UploadInstructions_UploadStrategy; 3 stands for any value the
\* client does not know.
UPLOAD_STRATEGY_UNSPECIFIED == 0
UPLOAD_STRATEGY_GRPC == 1
UPLOAD_STRATEGY_SIGNED_URL == 2
UPLOAD_STRATEGY_UNKNOWN == 3
Strategies ==
    {UPLOAD_STRATEGY_UNSPECIFIED, UPLOAD_STRATEGY_GRPC,
     UPLOAD_STRATEGY_SIGNED_URL, UPLOAD_STRATEGY_UNKNOWN}

\* net/http status codes the signed URL may answer with.
StatusOK == 200
HttpStatuses == {StatusOK, 204, 403}

(***************************************************************************)
(* Readers: an io.ReadSeeker is a pair of its bytes and its read offset.   *)
(* A flexbuf.Buffer and an os.File behave alike here.                      *)
(***************************************************************************)
NewBuffer == [data |-> <<>>, off |-> 0]

\* os.Open: a fresh handle at offset 0.
OpenFile(p) == [data |-> FS[p].data, off |-> 0]

\* Faulty variant of SeekStart: the rewind is forgotten.
SeekStart_Forgotten(r) == r

\* (*flexbuf.Buffer).SeekStart and Seek(0, io.SeekStart)
SeekStart(r) == [r EXCEPT !.off = 0]

\* (*flexbuf.Buffer).Len and os.FileInfo.Size
Size(r) == Len(r.data)

\* The bytes a reader yields when read to io.EOF from where it stands.
Remaining(r) == SubSeq(r.data, r.off + 1, Len(r.data))

\* The reader after it was read to io.EOF.
Drained(r) == [r EXCEPT !.off = Len(r.data)]

\* hash.Reader: a digest of the bytes read (16 bit polynomial hash stands
\* for xxhash).
RECURSIVE Digest(_, _)
Digest(h, bytes) ==
    IF bytes = <<>> THEN h
    ELSE Digest((h * 31 + Head(bytes)) % 65536, Tail(bytes))

HashOf(bytes) == Digest(7, bytes)

(***************************************************************************)
(* State of one run of the upload command.                                 *)
(***************************************************************************)
VARIABLES
    flags,      \* the parsed command line
    pc,         \* where the operation of the command stands
    i,          \* index of the path or upload the current loop is at
    uploads,    \* []*uploadInfo
    readers,    \* the scratch buffers and file handles, by number
    srcDst,     \* map[string]io.WriteSeeker: path -> number of its buffer
    pending,    \* extractAll: the sources still to iterate over
    joined,     \* extractAll: result, the sources whose errors were joined
    hash,       \* the hash of the current upload
    instr,      \* initiationResp.UploadInstructions of the current upload
    trace,      \* every protocol step performed so far, in order
    stdout,     \* the messages written to os.Stdout
    ret,        \* "running", "nil", or the error the operation returned
    stderr,     \* the messages written to os.Stderr
    disk,       \* extract: the files of the output directory, name -> bytes
    seen,       \* source: map[string]struct{}, the paths handled so far
    archive,    \* source: the entries written to the tar writer, in order
    refs,       \* source: the line-table files enumerated so far, in order
    opens,      \* source: the paths handed to os.Open so far, in order
    walk,       \* source: what the DWARF reader and the files answered, in order
    sink,       \* source: the handles opened and closed, and the file written
    ctxDone,    \* run: the context of run is cancelled
    sigDone,    \* run: the context of the signal handler is cancelled
    actors,     \* run: the actors added to the group, in order
    state,      \* run: actor -> "idle", "running" or "returned"
    errors,     \* run: the channel the actors send their results to
    returns,    \* run: the results of the actors, in the order they returned
    first,      \* run: the result Group.Run received first
    sigPending, \* run: a signal is waiting in the handler's channel
    runPc,      \* run: where run and Group.Run stand
    intr,       \* run: the actor whose interrupt function Group.Run calls next
    runRet      \* run: "running", "nil", or the error run returned

\* The state of the source command.
sourceVars == <<seen, archive, refs, opens, walk, sink>>

\* The state of the actor group of run.
runVars == <<ctxDone, sigDone, actors, state, errors, returns, first, sigPending,
            runPc, intr, runRet>>

vars == <<flags, pc, i, uploads, readers, srcDst, pending, joined, hash, instr,
          trace, stdout, ret, stderr, disk, sourceVars, runVars>>

\* The state the upload command does not have.
notUpload == <<disk, sourceVars, runVars>>

\* No handle is open and nothing is written.
NoSink == [opened |-> <<>>, closed |-> <<>>, onDisk |-> 0]

\* The source command has not run.
SourceIdle ==
    /\ seen = {}
    /\ archive = <<>>
    /\ refs = <<>>
    /\ opens = <<>>
    /\ walk = <<>>
    /\ sink = NoSink

\* No result was received from an actor.
NoResult == [actor |-> "", err |-> ""]

\* The group before g.Add: no actor, no result, no context cancelled.
GroupIdle ==
    /\ ctxDone = FALSE
    /\ sigDone = FALSE
    /\ actors = <<>>
    /\ state = <<>>
    /\ errors = <<>>
    /\ returns = <<>>
    /\ first = NoResult
    /\ sigPending = FALSE
    /\ intr = 0
    /\ runRet = "running"

\* The actor group is not modelled: the command runs on its own.
RunIdle ==
    /\ GroupIdle
    /\ runPc = "idle"

NoInstr == [strategy |-> UPLOAD_STRATEGY_UNSPECIFIED, uploadId |-> 0, signedUrl |-> ""]

\* Faulty variant of IsEmpty: only a negative size is refused.
IsEmpty_OnlyNegative(size) == size < 0

\* The zero-size guards: upload.size == 0 and fi.Size() == 0.
IsEmpty(size) == size = 0

\* The condition that selects the extraction branch of the upload command.
UseExtract(f) == ~f.NoExtract /\ f.Type = "debuginfo"

\* The upload closure before its first statement.
UploadStart ==
    /\ pc = "grpcConn"
    /\ i = 1
    /\ uploads = <<>>
    /\ readers = <<>>
    /\ srcDst = <<>>
    /\ pending = {}
    /\ joined = <<>>
    /\ hash = 0
    /\ instr = NoInstr
    /\ trace = <<>>
    /\ stdout = <<>>
    /\ ret = "running"
    /\ stderr = <<>>
    /\ disk = <<>>
    /\ SourceIdle

Init ==
    /\ flags \in Flags
    /\ UploadStart
    /\ RunIdle

\* return fmt.Errorf(...): the run ends with this error.
Return(err) ==
    /\ pc' = "done"
    /\ ret' = err

\* A call that is handed the context of run: once the context is cancelled
\* the call returns the error of the context.
WithContext(ok) == ctxDone => ~ok

\* grpcConn and the choice of the collect branch.
GrpcConn ==
    /\ pc = "grpcConn"
    /\ \E ok \in BOOLEAN :
         IF ok
         THEN /\ pc' = IF UseExtract(flags) THEN "collectExtract" ELSE "collectAsIs"
              /\ ret' = ret
         ELSE Return("create gRPC connection")
    /\ UNCHANGED <<notUpload, stderr>>
    /\ UNCHANGED <<flags, i, uploads, readers, srcDst, pending, joined, hash, instr,
                   trace, stdout>>

\* srcDst[path] = buf
MapPut(m, k, v) == [x \in DOMAIN m \cup {k} |-> IF x = k THEN v ELSE m[x]]

\* One iteration of the loop over flags.Upload.Paths in the extraction
\* branch, and, after the last path, the check that srcDst is not empty.
CollectExtract ==
    /\ pc = "collectExtract"
    /\ LET path == flags.Paths[i]
           f == FS[path]
           buf == Len(readers) + 1
           srcDst2 == MapPut(srcDst, path, buf)
       IN  IF ~f.elf
           THEN /\ Return("open ELF file")
                /\ UNCHANGED <<i, uploads, readers, srcDst, pending>>
           ELSE IF ~f.idOk
           THEN /\ Return("get Build ID")
                /\ UNCHANGED <<i, uploads, readers, srcDst, pending>>
           ELSE /\ readers' = Append(readers, NewBuffer)
                /\ srcDst' = srcDst2
                /\ uploads' = Append(uploads, [buildID |-> f.buildID, path |-> path,
                                               reader |-> buf, size |-> 0])
                /\ IF i < Len(flags.Paths)
                   THEN /\ i' = i + 1
                        /\ UNCHANGED <<pc, ret, pending>>
                   ELSE IF DOMAIN srcDst2 = {}
                   THEN /\ Return("failed to find actionable files")
                        /\ UNCHANGED <<i, pending>>
                   ELSE /\ pc' = "extractAll"
                        /\ pending' = DOMAIN srcDst2
                        /\ i' = 1
                        /\ ret' = ret
    /\ UNCHANGED <<notUpload, stderr>>
    /\ UNCHANGED <<flags, joined, hash, instr, trace, stdout>>

\* What one iteration of extractAll writes to dst: the reducer's output.
Reduce(src) == [data |-> FS[src].reduced, off |-> FS[src].reducedOff]

\* One iteration of extractAll's loop over the map (in any order), and,
\* after the last pair, its return to the upload command.
ExtractAll ==
    /\ pc = "extractAll"
    /\ \E src \in pending :
         LET f == FS[src]
             dst == srcDst[src]
             failed == ~f.exists \/ ~f.reduceOk
             joined2 == IF failed THEN Append(joined, src) ELSE joined
         IN  /\ readers' = IF f.exists
                           THEN [readers EXCEPT ![dst] = Reduce(src)]
                           ELSE readers
             /\ joined' = joined2
             /\ stderr' = IF ~f.exists
                          THEN Append(stderr, [msg |-> "failed to open file", src |-> src])
                          ELSE IF failed
                          THEN Append(stderr, [msg |-> "failed to extract", src |-> src])
                          ELSE stderr
             /\ pending' = pending \ {src}
             /\ IF pending' # {}
                THEN UNCHANGED <<pc, ret>>
                ELSE IF joined2 # <<>>
                THEN Return("failed to extract debug information")
                ELSE /\ pc' = "sizeCheck"
                     /\ ret' = ret
    /\ UNCHANGED notUpload
    /\ UNCHANGED <<flags, i, uploads, srcDst, hash, instr, trace, stdout>>

\* One iteration of the loop over uploads after extractAll: rewind the
\* scratch buffer, take its length as the size, refuse an empty one.
SizeCheck ==
    /\ pc = "sizeCheck"
    /\ LET buf == uploads[i].reader
           size == Size(readers[buf])
       IN  /\ readers' = [readers EXCEPT ![buf] = SeekStart(@)]
           /\ uploads' = [uploads EXCEPT ![i].size = size]
           /\ IF IsEmpty(size)
              THEN /\ Return("extracted debug information is empty")
                   /\ i' = i
              ELSE IF i < Len(uploads)
              THEN /\ i' = i + 1
                   /\ UNCHANGED <<pc, ret>>
              ELSE /\ pc' = "shouldInitiate"
                   /\ i' = 1
                   /\ ret' = ret
    /\ UNCHANGED <<notUpload, stderr>>
    /\ UNCHANGED <<flags, srcDst, pending, joined, hash, instr, trace, stdout>>

\* One iteration of the loop over flags.Upload.Paths in the branch that
\* uploads the files as they are.
CollectAsIs ==
    /\ pc = "collectAsIs"
    /\ LET path == flags.Paths[i]
           f == FS[path]
           needID == flags.Type = "debuginfo" /\ flags.BuildID = ""
           buildID == IF needID THEN f.buildID ELSE flags.BuildID
           file == Len(readers) + 1
       IN  IF needID /\ ~f.elf
           THEN /\ Return("open ELF file")
                /\ UNCHANGED <<i, uploads, readers>>
           ELSE IF needID /\ ~f.idOk
           THEN /\ Return("get Build ID")
                /\ UNCHANGED <<i, uploads, readers>>
           ELSE IF ~f.exists
           THEN /\ Return("open file")
                /\ UNCHANGED <<i, uploads, readers>>
           ELSE /\ readers' = Append(readers, OpenFile(path))
                /\ \E statOk \in BOOLEAN :
                   IF ~statOk
                   THEN /\ Return("stat file")
                        /\ UNCHANGED <<i, uploads>>
                   ELSE IF IsEmpty(Size(OpenFile(path)))
                   THEN /\ Return("file is empty")
                        /\ UNCHANGED <<i, uploads>>
                   ELSE /\ uploads' = Append(uploads,
                                             [buildID |-> buildID, path |-> path,
                                              reader |-> file,
                                              size |-> Size(OpenFile(path))])
                        /\ IF i < Len(flags.Paths)
                           THEN /\ i' = i + 1
                                /\ UNCHANGED <<pc, ret>>
                           ELSE /\ pc' = "shouldInitiate"
                                /\ i' = 1
                                /\ ret' = ret
    /\ UNCHANGED <<notUpload, stderr>>
    /\ UNCHANGED <<flags, srcDst, pending, joined, hash, instr, trace, stdout>>

(***************************************************************************)
(* The upload loop.                                                        *)
(***************************************************************************)

\* An entry of trace: the step, the upload it was made for, whether it
\* returned without error, what was sent and what came back.
Step(op, idx, ok, req, resp) ==
    [op |-> op, idx |-> idx, ok |-> ok, req |-> req, resp |-> resp]

\* `continue` and the end of the loop over uploads.
NextUpload ==
    IF i < Len(uploads)
    THEN /\ i' = i + 1
         /\ pc' = "shouldInitiate"
         /\ ret' = ret
    ELSE /\ i' = i
         /\ pc' = "done"
         /\ ret' = "nil"

\* Faulty variant of AfterShouldInitiate: a negative decision is not honoured.
AfterShouldInitiate_NoSkip(ok, should, noInitiate) ==
    IF ~ok THEN "return"
    ELSE IF noInitiate THEN "dryrun"
    ELSE "hash"

\* Faulty variant of AfterShouldInitiate: a negative decision is reported
\* with the message of the dry run.
AfterShouldInitiate_SkipAsDryRun(ok, should, noInitiate) ==
    IF ~ok THEN "return"
    ELSE IF ~should \/ noInitiate THEN "dryrun"
    ELSE "hash"

\* Faulty variant of AfterShouldInitiate: the NoInitiate flag is not read.
AfterShouldInitiate_NoDryRun(ok, should, noInitiate) ==
    IF ~ok THEN "return"
    ELSE IF ~should THEN "skip"
    ELSE "hash"

\* Faulty variant of AfterShouldInitiate: the NoInitiate flag is tested
\* before the decision of the store.
AfterShouldInitiate_DryRunFirst(ok, should, noInitiate) ==
    IF ~ok THEN "return"
    ELSE IF noInitiate THEN "dryrun"
    ELSE IF ~should THEN "skip"
    ELSE "hash"

\* What the loop does with the answer to ShouldInitiateUpload.
AfterShouldInitiate(ok, should, noInitiate) ==
    IF ~ok THEN "return"
    ELSE IF ~should THEN "skip"
    ELSE IF noInitiate THEN "dryrun"
    ELSE "hash"

\* debuginfoClient.ShouldInitiateUpload and the two `continue` branches.
ShouldInitiateUpload ==
    /\ pc = "shouldInitiate"
    /\ \E ok \in BOOLEAN, should \in BOOLEAN :
         /\ ok \/ ~should
         /\ WithContext(ok)
         /\ LET upload == uploads[i]
                req == [BuildId |-> upload.buildID, Force |-> flags.Force,
                        Type |-> debuginfoTypeStringToPb(flags.Type)]
                next == AfterShouldInitiate(ok, should, flags.NoInitiate)
            IN  /\ trace' = Append(trace, Step("ShouldInitiateUpload", i, ok, req,
                                               [ShouldInitiateUpload |-> should]))
                /\ CASE next = "return" ->
                          /\ Return("check if upload should be initiated")
                          /\ UNCHANGED <<i, stdout>>
                     [] next = "skip" ->
                          /\ stdout' = Append(stdout, [msg |-> "Skipping upload", idx |-> i])
                          /\ NextUpload
                     [] next = "dryrun" ->
                          /\ stdout' = Append(stdout, [msg |-> "Not initiating upload",
                                                       idx |-> i])
                          /\ NextUpload
                     [] OTHER ->
                          /\ pc' = "hash"
                          /\ UNCHANGED <<i, stdout, ret>>
    /\ UNCHANGED <<notUpload, stderr>>
    /\ UNCHANGED <<flags, uploads, readers, srcDst, pending, joined, hash, instr>>

\* hash.Reader(upload.reader): reads the reader to its end.
HashReader ==
    /\ pc = "hash"
    /\ \E ok \in BOOLEAN :
         LET r == readers[uploads[i].reader]
         IN  /\ trace' = Append(trace, Step("Hash", i, ok, [off |-> r.off],
                                            [bytes |-> Remaining(r)]))
             /\ readers' = [readers EXCEPT ![uploads[i].reader] = Drained(r)]
             /\ IF ok
                THEN /\ hash' = HashOf(Remaining(r))
                     /\ pc' = "seek"
                     /\ ret' = ret
                ELSE /\ Return("calculate hash")
                     /\ hash' = hash
    /\ UNCHANGED <<notUpload, stderr>>
    /\ UNCHANGED <<flags, i, uploads, srcDst, pending, joined, instr, stdout>>

\* upload.reader.Seek(0, io.SeekStart)
SeekReader ==
    /\ pc = "seek"
    /\ \E ok \in BOOLEAN :
         LET r == readers[uploads[i].reader]
         IN  /\ trace' = Append(trace, Step("Seek", i, ok, [off |-> r.off], [off |-> 0]))
             /\ IF ok
                THEN /\ readers' = [readers EXCEPT ![uploads[i].reader] = SeekStart(r)]
                     /\ pc' = "initiate"
                     /\ ret' = ret
                ELSE /\ Return("seek to start")
                     /\ readers' = readers
    /\ UNCHANGED <<notUpload, stderr>>
    /\ UNCHANGED <<flags, i, uploads, srcDst, pending, joined, hash, instr, stdout>>

\* The number of InitiateUpload calls the store has answered so far.
Issued == Cardinality({k \in 1..Len(trace) : trace[k].op = "InitiateUpload" /\ trace[k].ok})

\* debuginfoClient.InitiateUpload
InitiateUpload ==
    /\ pc = "initiate"
    /\ \E ok \in BOOLEAN, strategy \in Strategies :
         /\ ok \/ strategy = UPLOAD_STRATEGY_UNSPECIFIED
         /\ WithContext(ok)
         /\ LET upload == uploads[i]
                req == [BuildId |-> upload.buildID, Hash |-> hash, Size |-> upload.size,
                        Force |-> flags.Force,
                        Type |-> debuginfoTypeStringToPb(flags.Type)]
                resp == IF ok
                        THEN [strategy |-> strategy, uploadId |-> Issued + 1,
                              signedUrl |-> IF strategy = UPLOAD_STRATEGY_SIGNED_URL
                                            THEN "url" ELSE ""]
                        ELSE NoInstr
            IN  /\ trace' = Append(trace, Step("InitiateUpload", i, ok, req, resp))
                /\ instr' = resp
                /\ IF ok
                   THEN /\ pc' = "dispatch"
                        /\ ret' = ret
                        /\ stdout' = IF flags.LogLevel = LogLevelDebug
                                      THEN Append(stdout, [msg |-> "Upload instructions",
                                                           idx |-> i])
                                      ELSE stdout
                   ELSE /\ Return("initiate upload")
                        /\ stdout' = stdout
    /\ UNCHANGED <<notUpload, stderr>>
    /\ UNCHANGED <<flags, i, uploads, readers, srcDst, pending, joined, hash>>

\* Faulty variant of DispatchOf: the default case falls back to gRPC.
DispatchOf_DefaultGrpc(strategy) ==
    CASE strategy = UPLOAD_STRATEGY_SIGNED_URL -> "signedURL"
      [] strategy = UPLOAD_STRATEGY_UNSPECIFIED -> "no upload strategy specified"
      [] OTHER -> "grpc"

\* The switch on initiationResp.UploadInstructions.UploadStrategy.
DispatchOf(strategy) ==
    CASE strategy = UPLOAD_STRATEGY_GRPC -> "grpc"
      [] strategy = UPLOAD_STRATEGY_SIGNED_URL -> "signedURL"
      [] strategy = UPLOAD_STRATEGY_UNSPECIFIED -> "no upload strategy specified"
      [] OTHER -> "unknown upload strategy"

\* uploadViaSignedURL: doOk is whether http.DefaultClient.Do returned a
\* response, status is the response's status code.  TRUE when it returns nil.
uploadViaSignedURL(doOk, status) ==
    IF ~doOk THEN FALSE
    ELSE IF status # StatusOK THEN FALSE
    ELSE TRUE

\* Faulty variant of AfterDispatch: the error of the switch is dropped.
AfterDispatch_ErrorDropped(ok) == "markFinished"

\* What the loop does with the error of the strategy switch.
AfterDispatch(ok) == IF ok THEN "markFinished" ELSE "return"

\* The strategy switch up to the call of its case: for gRPC and the signed
\* URL the debug message, with the transmission still to come; for no or an
\* unknown strategy the error, which the run returns.
Dispatch ==
    /\ pc = "dispatch"
    /\ LET via == DispatchOf(instr.strategy)
       IN  IF via \in {"grpc", "signedURL"}
           THEN /\ stdout' = IF flags.LogLevel = LogLevelDebug
                             THEN Append(stdout,
                                         [msg |-> IF via = "grpc"
                                                  THEN "Performing a gRPC upload"
                                                  ELSE "Performing a signed URL upload",
                                          idx |-> i])
                             ELSE stdout
                /\ pc' = "transmit"
                /\ ret' = ret
           ELSE /\ stdout' = stdout
                /\ IF AfterDispatch(FALSE) = "return"
                   THEN Return("upload")
                   ELSE /\ pc' = "markFinished"
                        /\ ret' = ret
    /\ UNCHANGED <<notUpload, stderr>>
    /\ UNCHANGED <<flags, i, uploads, readers, srcDst, pending, joined, hash, instr,
                   trace>>

\* grpcUploadClient.Upload or uploadViaSignedURL, and what the loop does
\* with its error.
Transmit ==
    /\ pc = "transmit"
    /\ LET via == DispatchOf(instr.strategy)
           r == readers[uploads[i].reader]
       IN  \E doOk \in BOOLEAN, status \in HttpStatuses :
             /\ doOk \/ status = StatusOK
             /\ via = "grpc" => status = StatusOK
             /\ WithContext(doOk)
             /\ LET ok == IF via = "grpc" THEN doOk
                          ELSE uploadViaSignedURL(doOk, status)
                IN  /\ trace' = Append(trace,
                                       Step("Transmit", i, ok,
                                            [via |-> via, uploadId |-> instr.uploadId,
                                             signedUrl |-> instr.signedUrl,
                                             off |-> r.off,
                                             bytes |-> IF doOk THEN Remaining(r)
                                                       ELSE <<>>],
                                            [status |-> IF via = "signedURL" /\ doOk
                                                        THEN status ELSE 0]))
                    /\ readers' = IF doOk
                                  THEN [readers EXCEPT ![uploads[i].reader] = Drained(r)]
                                  ELSE readers
                    /\ IF AfterDispatch(ok) = "return"
                       THEN Return("upload")
                       ELSE /\ pc' = "markFinished"
                            /\ ret' = ret
    /\ UNCHANGED <<notUpload, stderr>>
    /\ UNCHANGED <<flags, i, uploads, srcDst, pending, joined, hash, instr, stdout>>

\* Faulty variant of AfterMarkUploadFinished: the error is dropped and the
\* loop goes on.
AfterMarkUploadFinished_ErrorDropped(ok) == "next"

\* What the loop does with the answer to MarkUploadFinished.
AfterMarkUploadFinished(ok) == IF ok THEN "next" ELSE "return"

\* Faulty variant of MarkUploadFinishedRequest: the Type field is left out
\* and has its zero value.
MarkUploadFinishedRequest_NoType(upload, instructions, type) ==
    [BuildId |-> upload.buildID, UploadId |-> instructions.uploadId,
     Type |-> 0]

\* &debuginfopb.MarkUploadFinishedRequest{...}
MarkUploadFinishedRequest(upload, instructions, type) ==
    [BuildId |-> upload.buildID, UploadId |-> instructions.uploadId,
     Type |-> debuginfoTypeStringToPb(type)]

\* debuginfoClient.MarkUploadFinished and the end of the loop body.
MarkUploadFinished ==
    /\ pc = "markFinished"
    /\ \E ok \in BOOLEAN :
         LET upload == uploads[i]
             req == MarkUploadFinishedRequest(upload, instr, flags.Type)
         IN  /\ WithContext(ok)
             /\ trace' = Append(trace, Step("MarkUploadFinished", i, ok, req, [ack |-> ok]))
             /\ IF AfterMarkUploadFinished(ok) = "return"
                THEN /\ Return("mark upload finished")
                     /\ i' = i
                ELSE NextUpload
    /\ UNCHANGED <<notUpload, stderr>>
    /\ UNCHANGED <<flags, uploads, readers, srcDst, pending, joined, hash, instr, stdout>>

Next ==
    \/ GrpcConn
    \/ CollectExtract
    \/ ExtractAll
    \/ SizeCheck
    \/ CollectAsIs
    \/ ShouldInitiateUpload
    \/ HashReader
    \/ SeekReader
    \/ InitiateUpload
    \/ Dispatch
    \/ Transmit
    \/ MarkUploadFinished

Spec == Init /\ [][Next]_vars

(***************************************************************************)
(* Properties of the upload loop.                                          *)
(***************************************************************************)

\* The positions of trace that hold step op of upload a.
StepsOf(op, a) == {k \in 1..Len(trace) : trace[k].op = op /\ trace[k].idx = a}

\* The calls that go over the network: to the store, or the transmission.
NetworkOps == {"ShouldInitiateUpload", "InitiateUpload", "Transmit", "MarkUploadFinished"}

\* The run returned an error.
Failed == ret \notin {"running", "nil"}

\* The store answered the dedup check of upload a with decision d.
Answered(a, d) ==
    \E k \in StepsOf("ShouldInitiateUpload", a) :
        trace[k].ok /\ trace[k].resp.ShouldInitiateUpload = d

\* The loop went on after upload a without an error: it stands at a later
\* upload, or a was the last one and the run returned nil.
WentOn(a) ==
    IF a < Len(uploads) THEN i > a ELSE pc = "done" /\ ret = "nil"

\* The messages of kind msg written for upload a.
Messages(msg, a) == {n \in 1..Len(stdout) : stdout[n].msg = msg /\ stdout[n].idx = a}

\* C1: an artifact the store answers shouldUpload=false for gets no
\* InitiateUpload, no transmission and no MarkUploadFinished, and the run
\* goes on with the next artifact without returning an error.
C1_SkippedMakesNoCalls ==
    \A a \in 1..Len(uploads) :
        Answered(a, FALSE) =>
            /\ StepsOf("InitiateUpload", a) = {}
            /\ StepsOf("Transmit", a) = {}
            /\ StepsOf("MarkUploadFinished", a) = {}
            /\ WentOn(a)

\* A skipped first artifact, and a second one that was then transmitted.
C1_Witness ==
    /\ Len(uploads) = 2
    /\ Answered(1, FALSE)
    /\ StepsOf("Transmit", 2) # {}

\* C2: a transmission is attempted only for the strategies grpc-stream and
\* signed-url; for the unspecified or an unrecognized strategy the run
\* returns an error, transmits nothing and does not call MarkUploadFinished.
C2_TransmitOnlyKnownStrategy ==
    /\ \A k \in 1..Len(trace) :
         trace[k].op = "Transmit" =>
            /\ k > 1
            /\ trace[k - 1].op = "InitiateUpload"
            /\ trace[k - 1].idx = trace[k].idx
            /\ trace[k - 1].ok
            /\ \/ /\ trace[k - 1].resp.strategy = UPLOAD_STRATEGY_GRPC
                  /\ trace[k].req.via = "grpc"
               \/ /\ trace[k - 1].resp.strategy = UPLOAD_STRATEGY_SIGNED_URL
                  /\ trace[k].req.via = "signedURL"
    /\ \A k \in 1..Len(trace) :
         ( /\ trace[k].op = "InitiateUpload"
           /\ trace[k].ok
           /\ trace[k].resp.strategy
                \notin {UPLOAD_STRATEGY_GRPC, UPLOAD_STRATEGY_SIGNED_URL} ) =>
            /\ StepsOf("Transmit", trace[k].idx) = {}
            /\ StepsOf("MarkUploadFinished", trace[k].idx) = {}
            /\ k = Len(trace)
            /\ i = trace[k].idx
            /\ \/ pc = "dispatch" /\ ret = "running"
               \/ pc = "done" /\ ret = "upload"

\* The store answered InitiateUpload with a strategy the client does not
\* know, and the run has returned.
C2_Witness ==
    /\ pc = "done"
    /\ trace # <<>>
    /\ trace[Len(trace)].op = "InitiateUpload"
    /\ trace[Len(trace)].ok
    /\ trace[Len(trace)].resp.strategy = UPLOAD_STRATEGY_UNKNOWN

\* The error the run returns when step op fails.
ErrorOf(op) ==
    CASE op = "ShouldInitiateUpload" -> "check if upload should be initiated"
      [] op = "Hash" -> "calculate hash"
      [] op = "Seek" -> "seek to start"
      [] op = "InitiateUpload" -> "initiate upload"
      [] op = "Transmit" -> "upload"
      [] op = "MarkUploadFinished" -> "mark upload finished"

\* C3: the upload fails fast: a failed step of artifact a is the last step
\* the run performs, the run returns that step's error, and no step of a
\* later artifact was or is performed.
C3_FailFast ==
    /\ \A k \in 1..Len(trace) :
         ~trace[k].ok =>
            /\ k = Len(trace)
            /\ pc = "done"
            /\ ret = ErrorOf(trace[k].op)
            /\ i = trace[k].idx
    /\ Failed =>
         /\ pc = "done"
         /\ \A k \in 1..Len(trace) : trace[k].idx <= i

\* A step of the first of two artifacts failed and the run is over.
C3_Witness ==
    /\ Len(uploads) = 2
    /\ pc = "done"
    /\ \E k \in 1..Len(trace) :
         ~trace[k].ok /\ trace[k].idx = 1 /\ trace[k].op = "Transmit"

\* The network calls made for upload a, in the order they were made.
NetworkCalls(a) ==
    SelectSeq(trace, LAMBDA e : e.idx = a /\ e.op \in NetworkOps)

ProtocolOrder ==
    <<"ShouldInitiateUpload", "InitiateUpload", "Transmit", "MarkUploadFinished">>

\* C4: the network calls of an artifact occur in the order
\* ShouldInitiateUpload, InitiateUpload, transmission, MarkUploadFinished,
\* each at most once, and MarkUploadFinished only after the transmission
\* of that artifact returned success.
C4_StrictOrder ==
    \A a \in 1..Len(uploads) :
        LET calls == NetworkCalls(a)
        IN  /\ Len(calls) <= Len(ProtocolOrder)
            /\ \A n \in 1..Len(calls) : calls[n].op = ProtocolOrder[n]
            /\ \A n \in 1..Len(calls) :
                 calls[n].op = "MarkUploadFinished" =>
                    calls[n - 1].op = "Transmit" /\ calls[n - 1].ok

\* An artifact that went through all four calls.
C4_Witness ==
    \E a \in 1..Len(uploads) :
        /\ Len(NetworkCalls(a)) = 4
        /\ NetworkCalls(a)[4].ok

\* The artifact made from path number k has a resolved size of 0: the file
\* on disk is empty when it is uploaded as it is, the scratch buffer is
\* empty once extractAll is over when it is extracted.
ZeroSize(k) ==
    IF UseExtract(flags)
    THEN /\ k <= Len(uploads)
         /\ pc \notin {"grpcConn", "collectExtract", "extractAll"}
         /\ Size(readers[uploads[k].reader]) = 0
    ELSE /\ FS[flags.Paths[k]].exists
         /\ Len(FS[flags.Paths[k]].data) = 0

\* C5: an artifact whose resolved size is 0 makes the run return an error
\* and is never hashed: the run never enters the upload loop.
C5_ZeroSizeIsError ==
    \A k \in 1..Len(flags.Paths) :
        ZeroSize(k) =>
            /\ pc \in {"grpcConn", "collectAsIs", "sizeCheck", "done"}
            /\ ret # "nil"
            /\ pc = "done" => Failed
            /\ \A n \in 1..Len(trace) : trace[n].op # "Hash"

\* The second of two extracted artifacts came out empty and the run
\* returned the error of the size check.
C5_Witness ==
    /\ pc = "done"
    /\ ret = "extracted debug information is empty"
    /\ Len(uploads) = 2
    /\ i = 2
    /\ uploads[1].size > 0

\* The bytes behind the reader of upload a.
Content(a) == readers[uploads[a].reader].data

\* C6: for a transmitted artifact the hash sent in InitiateUpload is the
\* hash of exactly the bytes transmitted: hashing starts at offset 0 and
\* reads the whole content, the transmission starts at offset 0 and sends
\* the whole content, and the size sent is the length of the content.
C6_HashOverTransmittedBytes ==
    \A k \in 1..Len(trace) :
        trace[k].op = "Transmit" =>
            LET a == trace[k].idx
            IN  /\ trace[k].req.off = 0
                /\ trace[k].ok => trace[k].req.bytes = Content(a)
                /\ \E h \in StepsOf("Hash", a), q \in StepsOf("InitiateUpload", a) :
                     /\ h < q
                     /\ q < k
                     /\ trace[h].ok
                     /\ trace[h].req.off = 0
                     /\ trace[h].resp.bytes = Content(a)
                     /\ trace[q].req.Hash = HashOf(Content(a))
                     /\ trace[q].req.Size = Len(Content(a))

\* The extracted content of a second artifact was transmitted.
C6_Witness ==
    /\ UseExtract(flags)
    /\ \E k \in StepsOf("Transmit", 2) : trace[k].ok /\ Len(trace[k].req.bytes) > 0

\* C7: two inputs, force=false, no dry run, the store answers true for the
\* first and false for the second: when the run is over there was exactly
\* one InitiateUpload, one transmission and one MarkUploadFinished, all for
\* the first artifact, exactly one skip message, for the second, and the
\* run returned nil.
C7_TwoBinariesScenario ==
    ( /\ Len(flags.Paths) = 2
      /\ ~flags.Force
      /\ ~flags.NoInitiate
      /\ pc = "done"
      /\ Len(uploads) = 2
      /\ Answered(1, TRUE)
      /\ Answered(2, FALSE) ) =>
        /\ Cardinality(StepsOf("InitiateUpload", 1)) = 1
        /\ Cardinality(StepsOf("Transmit", 1)) = 1
        /\ Cardinality(StepsOf("MarkUploadFinished", 1)) = 1
        /\ StepsOf("InitiateUpload", 2) = {}
        /\ StepsOf("Transmit", 2) = {}
        /\ StepsOf("MarkUploadFinished", 2) = {}
        /\ Cardinality(Messages("Skipping upload", 2)) = 1
        /\ Messages("Skipping upload", 1) = {}
        /\ Cardinality({n \in 1..Len(stdout) : stdout[n].msg = "Skipping upload"}) = 1
        /\ ret = "nil"

\* The scenario of C7 has run to its end, over two different binaries.
C7_Witness ==
    /\ Len(flags.Paths) = 2
    /\ flags.Paths[1] # flags.Paths[2]
    /\ ~flags.Force
    /\ ~flags.NoInitiate
    /\ pc = "done"
    /\ Len(uploads) = 2
    /\ Answered(1, TRUE)
    /\ Answered(2, FALSE)

\* C8: in a dry run nothing is transmitted and MarkUploadFinished is never
\* called; every artifact the store would accept is reported with one
\* message, and the run goes on with the next artifact without an error.
C8_DryRunTransmitsNothing ==
    flags.NoInitiate =>
        /\ \A k \in 1..Len(trace) :
             trace[k].op \notin {"Transmit", "MarkUploadFinished"}
        /\ \A a \in 1..Len(uploads) :
             Answered(a, TRUE) =>
                /\ Cardinality(Messages("Not initiating upload", a)) = 1
                /\ WentOn(a)

\* A dry run over two artifacts the store would accept has returned nil.
C8_Witness ==
    /\ flags.NoInitiate
    /\ pc = "done"
    /\ ret = "nil"
    /\ Answered(1, TRUE)
    /\ Answered(2, TRUE)
    /\ Len(stdout) = 2

\* C9 as stated: an artifact stopped for the dry run has been initiated,
\* the store has answered an InitiateUpload for it.
C9_DryRunStopsAfterInitiate ==
    \A a \in 1..Len(uploads) :
        Messages("Not initiating upload", a) # {} =>
            \E k \in StepsOf("InitiateUpload", a) : trace[k].ok

\* C9 as the code has it: an artifact is stopped for the dry run right
\* after the store answered its dedup check with shouldUpload=true; it was
\* neither hashed nor initiated, and the dedup check is the only step made
\* for it.
C9_DryRunStopsBeforeInitiate ==
    \A a \in 1..Len(uploads) :
        Messages("Not initiating upload", a) # {} =>
            /\ flags.NoInitiate
            /\ Answered(a, TRUE)
            /\ StepsOf("Hash", a) = {}
            /\ StepsOf("InitiateUpload", a) = {}
            /\ \A k \in 1..Len(trace) :
                 trace[k].idx = a => trace[k].op = "ShouldInitiateUpload"

\* An artifact was stopped for the dry run.
C9_Witness ==
    /\ pc = "done"
    /\ \E a \in 1..Len(uploads) : Messages("Not initiating upload", a) # {}

\* C10 as stated: the content of an artifact is hashed before
\* ShouldInitiateUpload is called for it.
C10_HashedBeforeDedupCheck ==
    \A k \in 1..Len(trace) :
        trace[k].op = "ShouldInitiateUpload" =>
            \E h \in StepsOf("Hash", trace[k].idx) : h < k

\* C10 as the code has it: ShouldInitiateUpload is called before the
\* content is hashed, the content is hashed only after the store answered
\* shouldUpload=true and not in a dry run, and an artifact the store skips
\* is never hashed.
C10_DedupCheckBeforeHash ==
    /\ \A h \in 1..Len(trace) :
         trace[h].op = "Hash" =>
            /\ ~flags.NoInitiate
            /\ \E k \in StepsOf("ShouldInitiateUpload", trace[h].idx) :
                  /\ k < h
                  /\ trace[k].ok
                  /\ trace[k].resp.ShouldInitiateUpload
    /\ \A a \in 1..Len(uploads) :
         Answered(a, FALSE) => StepsOf("Hash", a) = {}

\* The first artifact was skipped by the store and the second was hashed.
C10_Witness ==
    /\ Len(uploads) = 2
    /\ Answered(1, FALSE)
    /\ \E h \in StepsOf("Hash", 2) : trace[h].ok

(***************************************************************************)
(* The extract command and extractAll.                                     *)
(*                                                                         *)
(* The extract command uses flags, pc, i, readers (the handles of the      *)
(* output files), srcDst, pending, joined, ret, stderr and disk.           *)
(* extractAll is also run on its own, on any map of one to MaxPairs pairs,  *)
(* as its callers hand it over.                                            *)
(***************************************************************************)

\* Most pairs in a map handed to extractAll on its own.
MaxPairs == 3

\* flags.Extract.Mode (kong enum).
Modes == {"keep-only-debug", "strip-debug"}

\* A directory without files.
EmptyDir == <<>>

\* What the output directory may hold before the run.
OldDirs ==
    {EmptyDir,
     [n \in {"old.txt"} |-> <<9>>],
     [n \in {"ida.debuginfo", "old.txt"} |-> <<9, 9, 9>>]}

\* The input of the extract command: its flags, and OutputDir, the files
\* in the directory flags.Extract.OutputDir when the run starts.
ExtractFlags == [Mode : Modes, Paths : PathLists, OutputDir : OldDirs]

\* The state the extract command and extractAll do not have.
notExtract == <<uploads, hash, instr, trace, stdout, sourceVars, runVars>>

\* The extract closure before its first statement.
ExtractStart ==
    /\ pc = "cleanDir"
    /\ i = 1
    /\ uploads = <<>>
    /\ readers = <<>>
    /\ srcDst = <<>>
    /\ pending = {}
    /\ joined = <<>>
    /\ hash = 0
    /\ instr = NoInstr
    /\ trace = <<>>
    /\ stdout = <<>>
    /\ ret = "running"
    /\ stderr = <<>>
    /\ disk = flags.OutputDir
    /\ SourceIdle

InitExtract ==
    /\ flags \in ExtractFlags
    /\ ExtractStart
    /\ RunIdle

\* Faulty variant of RemoveAll: the directory is left as it is.
RemoveAll_Kept(dir) == dir

\* os.RemoveAll followed by os.MkdirAll: the directory is there and empty.
RemoveAll(dir) == EmptyDir

\* os.RemoveAll(flags.Extract.OutputDir) and os.MkdirAll.
CleanOutputDir ==
    /\ pc = "cleanDir"
    /\ \E outcome \in {"ok", "remove fails", "mkdir fails"} :
         CASE outcome = "remove fails" ->
                /\ Return("failed to clean output dir")
                /\ disk' = disk
           [] outcome = "mkdir fails" ->
                /\ Return("failed to create output dir")
                /\ disk' = RemoveAll(disk)
           [] OTHER ->
                /\ disk' = RemoveAll(disk)
                /\ pc' = "extractCollect"
                /\ ret' = ret
    /\ UNCHANGED <<flags, i, readers, srcDst, pending, joined, stderr>>
    /\ UNCHANGED notExtract

\* filepath.Join(flags.Extract.OutputDir, buildID+".debuginfo"), relative
\* to the output directory.
OutputName(buildID) == buildID \o ".debuginfo"

\* os.Create: a handle at offset 0 on the named file of the directory.
CreateFile(name) == [file |-> name, off |-> 0]

\* len(srcDst) == 0, the guard the callers put before extractAll.
EmptyGuard(m) == DOMAIN m = {}

\* One iteration of the loop over flags.Extract.Paths, and, after the last
\* path, the guard and the call of extractAll.
ExtractCollect ==
    /\ pc = "extractCollect"
    /\ LET path == flags.Paths[i]
           f == FS[path]
           output == OutputName(f.buildID)
           handle == Len(readers) + 1
           srcDst2 == MapPut(srcDst, path, handle)
       IN  IF ~f.elf
           THEN /\ Return("open ELF file")
                /\ UNCHANGED <<i, readers, srcDst, pending, disk>>
           ELSE IF ~f.idOk
           THEN /\ Return("get Build ID")
                /\ UNCHANGED <<i, readers, srcDst, pending, disk>>
           ELSE IF ~f.exists
           THEN /\ Return("open file")
                /\ UNCHANGED <<i, readers, srcDst, pending, disk>>
           ELSE \E created \in BOOLEAN :
                  IF ~created
                  THEN /\ Return("create output file")
                       /\ UNCHANGED <<i, readers, srcDst, pending, disk>>
                  ELSE /\ disk' = MapPut(disk, output, <<>>)
                       /\ readers' = Append(readers, CreateFile(output))
                       /\ srcDst' = srcDst2
                       /\ IF i < Len(flags.Paths)
                          THEN /\ i' = i + 1
                               /\ UNCHANGED <<pc, ret, pending>>
                          ELSE IF EmptyGuard(srcDst2)
                          THEN /\ Return("failed to find actionable files")
                               /\ UNCHANGED <<i, pending>>
                          ELSE /\ pc' = "extractAllLoop"
                               /\ pending' = DOMAIN srcDst2
                               /\ i' = i
                               /\ ret' = ret
    /\ UNCHANGED <<flags, joined, stderr>>
    /\ UNCHANGED notExtract

\* What the chosen extractFn (StripDebug or OnlyKeepDebug) writes for src.
Output(mode, src) ==
    IF mode = "strip-debug" THEN FS[src].stripped ELSE FS[src].reduced

\* The bytes of a file or buffer after bytes were written at offset off.
WriteAt(old, off, bytes) ==
    LET n == IF Len(old) > off + Len(bytes) THEN Len(old) ELSE off + Len(bytes)
    IN  [k \in 1..n |->
           IF k > off /\ k <= off + Len(bytes) THEN bytes[k - off]
           ELSE IF k <= Len(old) THEN old[k]
           ELSE 0]

\* Faulty variant of JoinErrors: the new error replaces the result.
JoinErrors_Overwrite(result, src) == <<src>>

\* result = errors.Join(result, err), err being the error of the pair src.
JoinErrors(result, src) == Append(result, src)

\* Faulty variant of AfterPairFailure: the loop ends at the first failure.
AfterPairFailure_Break(rest) == {}

\* The pairs extractAll goes on with after a pair failed: `continue`, or
\* the end of the loop body.
AfterPairFailure(rest) == rest

\* Faulty variant of ResultOf: an empty result is an error as well.
ResultOf_NeverNil(result) == "extractAll errors"

\* return result: nil when no error was joined.
ResultOf(result) == IF result = <<>> THEN "nil" ELSE "extractAll errors"

\* One iteration of extractAll's loop over the map, in any order.
ExtractAllIter ==
    /\ pc = "extractAllLoop"
    /\ pending # {}
    /\ \E src \in pending :
         LET f == FS[src]
             dst == srcDst[src]
             w == readers[dst]
             bytes == Output(flags.Mode, src)
             failed == ~f.exists \/ ~f.reduceOk
         IN  /\ IF ~f.exists
                THEN UNCHANGED <<readers, disk>>
                ELSE IF "file" \in DOMAIN w
                THEN /\ disk' = [disk EXCEPT ![w.file] = WriteAt(@, w.off, bytes)]
                     /\ readers' = [readers EXCEPT ![dst].off = f.reducedOff]
                ELSE /\ readers' = [readers EXCEPT
                                      ![dst] = [data |-> WriteAt(w.data, w.off, bytes),
                                                off |-> f.reducedOff]]
                     /\ disk' = disk
             /\ joined' = IF failed THEN JoinErrors(joined, src) ELSE joined
             /\ stderr' = IF ~f.exists
                          THEN Append(stderr, [msg |-> "failed to open file", src |-> src])
                          ELSE IF failed
                          THEN Append(stderr, [msg |-> "failed to extract", src |-> src])
                          ELSE stderr
             /\ pending' = IF failed THEN AfterPairFailure(pending \ {src})
                           ELSE pending \ {src}
    /\ UNCHANGED <<flags, pc, i, srcDst, ret>>
    /\ UNCHANGED notExtract

\* The end of extractAll's loop: return result, which is also what the
\* extract command returns.
ExtractAllReturn ==
    /\ pc = "extractAllLoop"
    /\ pending = {}
    /\ pc' = "done"
    /\ ret' = ResultOf(joined)
    /\ UNCHANGED <<flags, i, readers, srcDst, pending, joined, stderr, disk>>
    /\ UNCHANGED notExtract

NextExtract ==
    \/ CleanOutputDir
    \/ ExtractCollect
    \/ ExtractAllIter
    \/ ExtractAllReturn

SpecExtract == InitExtract /\ [][NextExtract]_vars

\* The maps extractAll is handed: at least one and at most MaxPairs
\* sources, each with a scratch buffer of its own.
PairSets == {S \in SUBSET PathNames : Cardinality(S) \in 1..MaxPairs}

\* A numbering of the sources of S: each gets the buffer of its number.
BufferOf(S) ==
    CHOOSE m \in [S -> 1..Cardinality(S)] : \A p, q \in S : p # q => m[p] # m[q]

\* extractAll on its own, at the call its callers make.
InitExtractAll ==
    /\ \E S \in PairSets, mode \in Modes :
         /\ flags = [Mode |-> mode]
         /\ srcDst = BufferOf(S)
         /\ readers = [k \in 1..Cardinality(S) |-> NewBuffer]
    /\ pc = "callExtractAll"
    /\ i = 1
    /\ uploads = <<>>
    /\ pending = {}
    /\ joined = <<>>
    /\ hash = 0
    /\ instr = NoInstr
    /\ trace = <<>>
    /\ stdout = <<>>
    /\ ret = "running"
    /\ stderr = <<>>
    /\ disk = EmptyDir
    /\ SourceIdle
    /\ RunIdle

\* The call of extractAll: the loop over the map starts.
CallExtractAll ==
    /\ pc = "callExtractAll"
    /\ pc' = "extractAllLoop"
    /\ pending' = DOMAIN srcDst
    /\ ret' = ret
    /\ UNCHANGED <<flags, i, readers, srcDst, joined, stderr, disk>>
    /\ UNCHANGED notExtract

NextExtractAll ==
    \/ CallExtractAll
    \/ ExtractAllIter
    \/ ExtractAllReturn

SpecExtractAll == InitExtractAll /\ [][NextExtractAll]_vars

(***************************************************************************)
(* Properties of the extract command and of extractAll.                    *)
(***************************************************************************)

\* The identifier of path p cannot be resolved, or p cannot be opened.
ResolveFails(p) == ~FS[p].elf \/ ~FS[p].idOk \/ ~FS[p].exists

\* The identifier of path p is resolved, and the reducer fails on p.
ReduceFails(p) == ~ResolveFails(p) /\ ~FS[p].reduceOk

\* The positions of the input paths that are malformed in either way.
MalformedInputs ==
    {k \in 1..Len(flags.Paths) :
        ResolveFails(flags.Paths[k]) \/ ReduceFails(flags.Paths[k])}

\* The input paths are different files with different identifiers.
DistinctInputs ==
    \A j, k \in 1..Len(flags.Paths) :
        j # k =>
            /\ flags.Paths[j] # flags.Paths[k]
            /\ (~ResolveFails(flags.Paths[j]) /\ ~ResolveFails(flags.Paths[k])) =>
                   FS[flags.Paths[j]].buildID # FS[flags.Paths[k]].buildID

\* The extract command is over, and neither the output directory nor an
\* output file failed to be created.
ExtractRan ==
    /\ pc = "done"
    /\ ret \notin {"failed to clean output dir", "failed to create output dir",
                   "create output file"}

\* Every well-formed input has its output, the reducer's, in the directory.
GoodOutputsWritten ==
    \A k \in 1..Len(flags.Paths) :
        k \notin MalformedInputs =>
            LET name == OutputName(FS[flags.Paths[k]].buildID)
            IN  /\ name \in DOMAIN disk
                /\ disk[name] = Output(flags.Mode, flags.Paths[k])

\* C11 as stated: with exactly one malformed input among N, the extract
\* command writes the N-1 other outputs and reports exactly one joined
\* failure, that of the malformed file.
C11_OneMalformedIsolated ==
    (ExtractRan /\ DistinctInputs /\ Cardinality(MalformedInputs) = 1) =>
        LET bad == flags.Paths[CHOOSE k \in MalformedInputs : TRUE]
        IN  /\ GoodOutputsWritten
            /\ joined = <<bad>>
            /\ ret = "extractAll errors"

\* C11 as the code has it: a file the reducer fails on is isolated (the
\* other N-1 outputs are written, one failure is joined and reported); a
\* file whose identifier cannot be resolved aborts the command before any
\* reduction, and no output is written.
C11_ReducerFailureIsolated ==
    (ExtractRan /\ DistinctInputs /\ Cardinality(MalformedInputs) = 1) =>
        LET bad == flags.Paths[CHOOSE k \in MalformedInputs : TRUE]
        IN  IF ReduceFails(bad)
            THEN /\ GoodOutputsWritten
                 /\ joined = <<bad>>
                 /\ ret = "extractAll errors"
                 /\ Len(stderr) = 1
                 /\ stderr[1].src = bad
            ELSE /\ ret \in {"open ELF file", "get Build ID", "open file"}
                 /\ joined = <<>>
                 /\ stderr = <<>>
                 /\ \A n \in DOMAIN disk : disk[n] = <<>>

\* Two inputs, the reducer failed on one of them, the other was extracted.
C11_Witness ==
    /\ ExtractRan
    /\ DistinctInputs
    /\ Len(flags.Paths) = 2
    /\ Cardinality(MalformedInputs) = 1
    /\ ReduceFails(flags.Paths[CHOOSE k \in MalformedInputs : TRUE])
    /\ GoodOutputsWritten

\* The pair of source src fails in extractAll: src cannot be opened or the
\* reducer fails on it.
PairFails(src) == ~FS[src].exists \/ ~FS[src].reduceOk

FailedPairs == {src \in DOMAIN srcDst : PairFails(src)}

\* extractAll was called and has returned.
ExtractAllReturned ==
    /\ pc = "done"
    /\ ret \in {"nil", "extractAll errors"}

\* C12: extractAll attempts every pair whatever happens to the others, it
\* returns a non-nil error exactly when a pair failed, and the joined
\* error holds the error of every failed pair, once.
C12_ExtractAllJoinsAllFailures ==
    ExtractAllReturned =>
        /\ pending = {}
        /\ {joined[k] : k \in 1..Len(joined)} = FailedPairs
        /\ Len(joined) = Cardinality(FailedPairs)
        /\ (ret # "nil") <=> (FailedPairs # {})
        /\ \A src \in DOMAIN srcDst :
             IF FS[src].exists
             THEN readers[srcDst[src]].data = Output(flags.Mode, src)
             ELSE \E n \in 1..Len(stderr) :
                      stderr[n] = [msg |-> "failed to open file", src |-> src]

\* extractAll returned after two pairs failed and one succeeded.
C12_Witness ==
    /\ ExtractAllReturned
    /\ Cardinality(FailedPairs) = 2
    /\ Cardinality(DOMAIN srcDst) = 3
    /\ \E src \in DOMAIN srcDst : ~FS[src].exists

\* The names the outputs of the inputs get.
OutputNames ==
    {OutputName(FS[flags.Paths[k]].buildID) : k \in 1..Len(flags.Paths)}

\* No file of the directory is as it was before the run.
NothingOldLeft ==
    \A n \in DOMAIN disk :
        n \in DOMAIN flags.OutputDir => disk[n] # flags.OutputDir[n]

\* C20 as stated: after a successful run over N inputs the directory holds
\* exactly N files, the outputs of the inputs, and nothing from before.
C20_OneFilePerInput ==
    (pc = "done" /\ ret = "nil") =>
        /\ Cardinality(DOMAIN disk) = Len(flags.Paths)
        /\ DOMAIN disk = OutputNames
        /\ NothingOldLeft

\* C20 as the code has it: after a successful run the directory holds
\* exactly one file per distinct identifier of the inputs, named by the
\* identifier and ".debuginfo" (N files when the N identifiers differ), and
\* nothing from before.
C20_OneFilePerIdentifier ==
    (pc = "done" /\ ret = "nil") =>
        /\ DOMAIN disk = OutputNames
        /\ Cardinality(DOMAIN disk)
             = Cardinality({FS[flags.Paths[k]].buildID : k \in 1..Len(flags.Paths)})
        /\ DistinctInputs => Cardinality(DOMAIN disk) = Len(flags.Paths)
        /\ NothingOldLeft

\* A successful run over two inputs into a directory that held two files,
\* one of them under the name of an output.
C20_Witness ==
    /\ pc = "done"
    /\ ret = "nil"
    /\ Len(flags.Paths) = 2
    /\ DistinctInputs
    /\ Cardinality(DOMAIN flags.OutputDir) = 2
    /\ DOMAIN flags.OutputDir \cap DOMAIN disk # {}

(***************************************************************************)
(* Properties of the signed URL transport.                                 *)
(***************************************************************************)

\* C14: the PUT to the signed URL succeeds for every 2xx status of the
\* response and fails for every other status; when it fails the run
\* returns the error and MarkUploadFinished is not called for the artifact.
C14_Any2xxIsSuccess ==
    \A k \in 1..Len(trace) :
        ( /\ trace[k].op = "Transmit"
          /\ trace[k].req.via = "signedURL"
          /\ trace[k].resp.status # 0 ) =>
            /\ trace[k].ok <=> trace[k].resp.status \in 200..299
            /\ ~trace[k].ok =>
                 /\ pc = "done"
                 /\ ret = "upload"
                 /\ StepsOf("MarkUploadFinished", trace[k].idx) = {}

(***************************************************************************)
(* The source command: the archive of the source files a debuginfo file    *)
(* refers to.                                                              *)
(***************************************************************************)

\* The number of entries read from the DWARF reader in one run.
MaxUnits == 2

\* The number of line-table files enumerated in one run.
MaxRefs == 3

\* The paths a line table can name.
SourceNames == {"x.c", "y.c", "gone.h", "deny.c"}

\* A nil *dwarf.LineFile in lr.Files().
NilFile == "nil"

\* The source files on disk: "gone.h" does not exist, "deny.c" exists and
\* cannot be opened.
SourceFS ==
    [n \in SourceNames |->
        CASE n = "x.c"    -> [exists |-> TRUE,  readable |-> TRUE,  data |-> <<1>>]
          [] n = "y.c"    -> [exists |-> TRUE,  readable |-> TRUE,  data |-> <<2, 3>>]
          [] n = "gone.h" -> [exists |-> FALSE, readable |-> FALSE, data |-> <<>>]
          [] OTHER        -> [exists |-> TRUE,  readable |-> FALSE, data |-> <<>>]]

\* The source closure before its first statement.
SourceStart ==
    /\ pc = "sourceOpen"
    /\ i = 0
    /\ uploads = <<>>
    /\ readers = <<>>
    /\ srcDst = <<>>
    /\ pending = {}
    /\ joined = <<>>
    /\ hash = 0
    /\ instr = NoInstr
    /\ trace = <<>>
    /\ stdout = <<>>
    /\ ret = "running"
    /\ stderr = <<>>
    /\ disk = <<>>
    /\ SourceIdle

InitSource ==
    /\ flags = [Command |-> "source"]
    /\ SourceStart
    /\ RunIdle

\* The state the source command does not have.
notSource == <<flags, uploads, readers, srcDst, pending, joined, hash, instr,
               trace, stdout, disk, runVars>>

\* The handles that are open after the start of the source command, by
\* its outcome: f the ELF file, sf the output file, zw the zstd writer on
\* sf, tw the tar writer on zw.
OpenedAt(outcome) ==
    CASE outcome = "open elf" -> <<>>
      [] outcome = "create source archive" -> <<"f">>
      [] outcome = "create zstd writer" -> <<"f", "sf">>
      [] OTHER -> <<"f", "sf", "zw", "tw">>

\* The handles closed when the function of the source command returns, in
\* the order they are closed: the deferred sf.Close() and f.Close().
DeferredCloses(opened) ==
    SelectSeq(<<"sf", "f">>, LAMBDA h : \E n \in 1..Len(opened) : opened[n] = h)

\* The tar writer, then the zstd writer were closed before the output file.
Finalized(closed) ==
    \E t, z, f \in 1..Len(closed) :
        /\ closed[t] = "tw"
        /\ closed[z] = "zw"
        /\ closed[f] = "sf"
        /\ t < z
        /\ z < f

\* The entries that can be read back from the output file once it is
\* closed: all that were written when the writers were closed before it,
\* otherwise as many as the zstd writer had passed on.
OnDisk(closed, written) ==
    IF Finalized(closed) THEN {written} ELSE 0..written

\* The function of the source command returns err: the deferred closes run.
SourceReturn(err, opened, written) ==
    /\ Return(err)
    /\ \E n \in OnDisk(DeferredCloses(opened), written) :
         sink' = [opened |-> opened, closed |-> DeferredCloses(opened), onDisk |-> n]

\* elf.Open, os.Create, zstd.NewWriter, tar.NewWriter and f.DWARF.
SourceOpen ==
    /\ pc = "sourceOpen"
    /\ \E outcome \in {"ok", "open elf", "create source archive",
                       "create zstd writer", "get dwarf data"} :
         IF outcome = "ok"
         THEN /\ pc' = "nextEntry"
              /\ ret' = ret
              /\ sink' = [sink EXCEPT !.opened = OpenedAt(outcome)]
         ELSE SourceReturn(outcome, OpenedAt(outcome), 0)
    /\ UNCHANGED <<i, stderr, seen, archive, refs, opens, walk>>
    /\ UNCHANGED notSource

\* r.Next() and, for a compile unit, d.LineReader(e).
NextEntry ==
    /\ pc = "nextEntry"
    /\ \E e \in {"error", "nil", "other", "unit"} :
         CASE e = "error" ->
                /\ SourceReturn("read DWARF entry", sink.opened, Len(archive))
                /\ walk' = Append(walk, "Next: error")
                /\ i' = i
           [] e = "nil" ->
                /\ SourceReturn("nil", sink.opened, Len(archive))
                /\ walk' = Append(walk, "Next: nil")
                /\ i' = i
           [] e = "other" ->
                /\ i < MaxUnits
                /\ i' = i + 1
                /\ walk' = Append(walk, "Next: other")
                /\ UNCHANGED <<pc, ret, sink>>
           [] OTHER ->
                /\ i < MaxUnits
                /\ i' = i + 1
                /\ \E lr \in {"error", "nil", "reader"} :
                     CASE lr = "error" ->
                            /\ SourceReturn("get line reader", sink.opened, Len(archive))
                            /\ walk' = Append(walk, "LineReader: error")
                       [] lr = "nil" ->
                            /\ walk' = Append(walk, "LineReader: nil")
                            /\ UNCHANGED <<pc, ret, sink>>
                       [] OTHER ->
                            /\ pc' = "lineFiles"
                            /\ ret' = ret
                            /\ walk' = Append(walk, "LineReader: ok")
                            /\ sink' = sink
    /\ UNCHANGED <<stderr, seen, archive, refs, opens>>
    /\ UNCHANGED notSource

\* _, ok := seen[lineFile.Name]
AlreadySeen(seenSet, name) == name \in seenSet

\* Faulty variant of MarkMissing: the missing path is not marked.
MarkMissing_Forgotten(seenSet, name) == seenSet

\* seen[lineFile.Name] = struct{}{} in the branch of a missing file.
MarkMissing(seenSet, name) == seenSet \cup {name}

\* One entry of the archive: the header and the bytes copied after it.
TarEntry(name, size, data) == [name |-> name, size |-> size, data |-> data]

\* Faulty variant of AfterOpen: every error of os.Open is taken as a
\* missing file.
AfterOpen_AnyErrorSkipped(file) ==
    IF ~file.exists \/ ~file.readable THEN "skip" ELSE "archive"

\* What the loop does with the result of os.Open: errors.Is(err,
\* os.ErrNotExist), then err != nil.
AfterOpen(file) ==
    IF ~file.exists THEN "skip"
    ELSE IF ~file.readable THEN "return"
    ELSE "archive"

\* What os.Open answers for a file.
OpenAnswer(file) ==
    IF ~file.exists THEN "file: missing"
    ELSE IF ~file.readable THEN "file: open error"
    ELSE "file: opened"

\* One iteration of the loop over lr.Files(), or the end of that loop.
LineFile ==
    /\ pc = "lineFiles"
    /\ \/ /\ pc' = "nextEntry"
          /\ UNCHANGED <<ret, stderr, sourceVars>>
       \/ /\ Len(refs) < MaxRefs
          /\ \E name \in SourceNames \cup {NilFile} :
               /\ refs' = Append(refs, [unit |-> i, name |-> name])
               /\ IF name = NilFile
                  THEN /\ walk' = Append(walk, "file: nil")
                       /\ UNCHANGED <<pc, ret, stderr, seen, archive, opens, sink>>
                  ELSE IF AlreadySeen(seen, name)
                  THEN /\ walk' = Append(walk, "file: seen")
                       /\ UNCHANGED <<pc, ret, stderr, seen, archive, opens, sink>>
                  ELSE /\ opens' = Append(opens, name)
                       /\ LET next == AfterOpen(SourceFS[name])
                              data == SourceFS[name].data
                          IN  CASE next = "skip" ->
                                     /\ stderr' = Append(stderr, [msg |-> "skipping file",
                                                                  name |-> name])
                                     /\ seen' = MarkMissing(seen, name)
                                     /\ walk' = Append(walk, OpenAnswer(SourceFS[name]))
                                     /\ UNCHANGED <<pc, ret, archive, sink>>
                                [] next = "return" ->
                                     /\ SourceReturn("open file", sink.opened, Len(archive))
                                     /\ walk' = Append(walk, OpenAnswer(SourceFS[name]))
                                     /\ UNCHANGED <<stderr, seen, archive>>
                                [] OTHER ->
                                     \E outcome \in {"ok", "stat file", "write tar header",
                                                     "copy file to tar", "close file"} :
                                       /\ walk' = Append(walk, "file: " \o outcome)
                                       /\ CASE outcome \in {"stat file", "write tar header"} ->
                                                 /\ SourceReturn(outcome, sink.opened,
                                                                 Len(archive))
                                                 /\ UNCHANGED <<stderr, seen, archive>>
                                            [] outcome = "copy file to tar" ->
                                                 /\ SourceReturn(outcome, sink.opened,
                                                                 Len(archive))
                                                 /\ archive' = Append(archive,
                                                        TarEntry(name, Len(data), <<>>))
                                                 /\ UNCHANGED <<stderr, seen>>
                                            [] outcome = "close file" ->
                                                 /\ SourceReturn(outcome, sink.opened,
                                                                 Len(archive) + 1)
                                                 /\ archive' = Append(archive,
                                                        TarEntry(name, Len(data), data))
                                                 /\ UNCHANGED <<stderr, seen>>
                                            [] OTHER ->
                                                 /\ archive' = Append(archive,
                                                        TarEntry(name, Len(data), data))
                                                 /\ seen' = seen \cup {name}
                                                 /\ UNCHANGED <<pc, ret, stderr, sink>>
    /\ i' = i
    /\ UNCHANGED notSource

NextSource ==
    \/ SourceOpen
    \/ NextEntry
    \/ LineFile

SpecSource == InitSource /\ [][NextSource]_vars

(***************************************************************************)
(* Properties of the source command.                                       *)
(***************************************************************************)

\* The paths the line tables have named so far.
Referenced == {refs[k].name : k \in 1..Len(refs)} \ {NilFile}

\* The positions of the archive entries of a path.
EntriesOf(name) == {k \in 1..Len(archive) : archive[k].name = name}

\* The positions of the os.Open calls on a path.
OpensOf(name) == {k \in 1..Len(opens) : opens[k] = name}

\* The positions of the warnings about a path.
WarningsOf(name) ==
    {k \in 1..Len(stderr) : stderr[k] = [msg |-> "skipping file", name |-> name]}

\* The source command has returned nil.
SourceSucceeded == pc = "done" /\ ret = "nil"

\* The errors of the handling of one opened source file.
FileErrors == {"open file", "stat file", "write tar header",
               "copy file to tar", "close file"}

\* The entries that can be read back from the output file after the
\* command has returned: the first sink.onDisk entries handed to the tar
\* writer.
OutputArchive == SubSeq(archive, 1, sink.onDisk)

\* The positions of the entries of a path in the output file.
OutputEntriesOf(name) ==
    {k \in 1..Len(OutputArchive) : OutputArchive[k].name = name}

\* C15: a source path is opened at most once, however often the line
\* tables name it, and when the command succeeds the output archive holds
\* exactly one entry for every named path that exists, with the bytes of
\* the file.
C15_OneEntryInOutputArchive ==
    /\ \A name \in SourceNames : Cardinality(OpensOf(name)) <= 1
    /\ SourceSucceeded =>
         \A name \in Referenced :
            SourceFS[name].exists =>
               \E k \in 1..Len(OutputArchive) :
                  /\ OutputEntriesOf(name) = {k}
                  /\ OutputArchive[k] = TarEntry(name, Len(SourceFS[name].data),
                                                 SourceFS[name].data)

\* C16: a named path that does not exist has exactly one warning, however
\* often it is named, and no entry in the archive; it is never the cause of
\* an error: a run that fails on a source file fails on one that exists.
C16_MissingSourceTolerated ==
    /\ \A name \in SourceNames :
         ~SourceFS[name].exists =>
            /\ Cardinality(WarningsOf(name)) = (IF name \in Referenced THEN 1 ELSE 0)
            /\ EntriesOf(name) = {}
    /\ (pc = "done" /\ ret \in FileErrors) =>
         /\ opens # <<>>
         /\ SourceFS[opens[Len(opens)]].exists
    /\ pc = "done" =>
         ret \in FileErrors \cup {"nil", "open elf", "create source archive",
                                  "create zstd writer", "get dwarf data",
                                  "read DWARF entry", "get line reader"}

\* A successful run in which the missing path is named twice, in two
\* compile units, next to a path that is archived.
C16_Witness ==
    /\ SourceSucceeded
    /\ archive # <<>>
    /\ \E k1, k2 \in 1..Len(refs) :
         /\ k1 < k2
         /\ refs[k1].name = refs[k2].name
         /\ refs[k1].unit # refs[k2].unit
         /\ refs[k1].name \in SourceNames
         /\ ~SourceFS[refs[k1].name].exists
         /\ Cardinality(WarningsOf(refs[k1].name)) = 1

(***************************************************************************)
(* run: the command switch and the actor group of the operation and the    *)
(* signal handler.  The operation of the command runs as the first actor,  *)
(* one step of its closure at a time, each blocking call a step of its     *)
(* own, between the steps of Group.Run, of the signal handler and of the   *)
(* signal.                                                                 *)
(***************************************************************************)

\* The paths a run under the group is given: at most this many.
MaxRunPaths == 1

\* The commands of the switch of run.
UploadCommand == "upload <path>"
ExtractCommand == "extract <path>"
BuildidCommand == "buildid <path>"
SourceCommand == "source <debuginfo-path>"

\* The commands the switch of run has a case for.
Commands == {UploadCommand, ExtractCommand, BuildidCommand, SourceCommand}

\* The values of kongCtx.Command(): the four commands and one the switch
\* does not know.
CommandInputs == Commands \cup {"help"}

\* The actor grun.SignalHandler returns.
SignalActor == "signal"

\* flags.Buildid.Path: the paths of FS and "n", an ELF file for which
\* buildid.FromELF returns an empty identifier and no error.
BuildidPaths == PathNames \cup {"n"}

\* What elf.Open and buildid.FromELF answer for a path.
BuildidFile(path) ==
    IF path \in PathNames
    THEN [elf |-> FS[path].elf, idOk |-> FS[path].idOk, buildID |-> FS[path].buildID]
    ELSE [elf |-> TRUE, idOk |-> TRUE, buildID |-> ""]

\* flags.Upload.Paths and flags.Extract.Paths of a run under the group.
RunPathLists == UNION {[1..n -> PathNames] : n \in 1..MaxRunPaths}

\* The flags of a run: the command and the flags its operation reads.  The
\* upload is of type debuginfo, without --force and --build-id.
RunFlags ==
    [Command : {UploadCommand}, NoExtract : BOOLEAN, NoInitiate : BOOLEAN,
     Force : {FALSE}, Type : {"debuginfo"}, BuildID : {""}, Paths : RunPathLists,
     LogLevel : LogLevels]
    \cup [Command : {ExtractCommand}, Mode : Modes, Paths : RunPathLists,
          OutputDir : OldDirs]
    \cup [Command : {BuildidCommand}, Path : BuildidPaths]
    \cup [Command : {SourceCommand, "help"}]

\* The buildid closure before its first statement, and the state of the
\* closures when the switch knows none for the command.
BuildidStart ==
    /\ pc = "buildid"
    /\ i = 0
    /\ uploads = <<>>
    /\ readers = <<>>
    /\ srcDst = <<>>
    /\ pending = {}
    /\ joined = <<>>
    /\ hash = 0
    /\ instr = NoInstr
    /\ trace = <<>>
    /\ stdout = <<>>
    /\ ret = "running"
    /\ stderr = <<>>
    /\ disk = <<>>
    /\ SourceIdle

InitRun ==
    /\ flags \in RunFlags
    /\ CASE flags.Command = UploadCommand -> UploadStart
         [] flags.Command = ExtractCommand -> ExtractStart
         [] flags.Command = SourceCommand -> SourceStart
         [] OTHER -> BuildidStart
    /\ GroupIdle
    /\ runPc = "switch"

\* The state of the operation: run and the group do not have it.
notRun == <<pc, i, uploads, readers, srcDst, pending, joined, hash, instr, trace,
            stdout, ret, stderr, disk, sourceVars>>

\* Faulty variant of CommandCase: an unknown command runs the upload.
CommandCase_Fallthrough(command) ==
    IF command \in Commands THEN command ELSE "upload <path>"

\* switch kongCtx.Command(): the case taken.
CommandCase(command) ==
    IF command \in Commands THEN command ELSE "default"

\* The switch of run, g.Add of the operation of the command and g.Add of
\* the signal handler; in the default case cancel() and the error.
RunSwitch ==
    /\ runPc = "switch"
    /\ LET case == CommandCase(flags.Command)
       IN  IF case = "default"
           THEN /\ ctxDone' = TRUE
                /\ runPc' = "done"
                /\ runRet' = "unknown command"
                /\ UNCHANGED actors
           ELSE /\ actors' = <<case, SignalActor>>
                /\ runPc' = "start"
                /\ UNCHANGED <<ctxDone, runRet>>
    /\ UNCHANGED <<flags, sigDone, state, errors, returns, first, sigPending, intr>>
    /\ UNCHANGED notRun

\* Group.Run: one goroutine per actor, each sending the result of its
\* execute function to the errors channel.
GroupStart ==
    /\ runPc = "start"
    /\ state' = [k \in 1..Len(actors) |-> "running"]
    /\ runPc' = "first"
    /\ UNCHANGED <<flags, runRet, ctxDone, sigDone, actors, errors, returns, first,
                   sigPending, intr>>
    /\ UNCHANGED notRun

\* The execute function of the operation of command is running.
Executing(command) ==
    /\ state # <<>>
    /\ state[1] = "running"
    /\ actors[1] = command
    /\ pc # "done"

\* One step of the upload closure.
UploadOperation == Executing(UploadCommand) /\ Next

\* One step of the extract closure.
ExtractOperation == Executing(ExtractCommand) /\ NextExtract

\* One step of the source closure.
SourceOperation == Executing(SourceCommand) /\ NextSource

\* The buildid closure: elf.Open, buildid.FromELF, the test for an empty
\* identifier, and the identifier written to os.Stdout.  It does not read
\* the context.
BuildidOperation ==
    /\ Executing(BuildidCommand)
    /\ pc = "buildid"
    /\ LET f == BuildidFile(flags.Path)
       IN  IF ~f.elf
           THEN /\ Return("open ELF file")
                /\ stdout' = stdout
           ELSE IF ~f.idOk
           THEN /\ Return("get Build ID")
                /\ stdout' = stdout
           ELSE IF f.buildID = ""
           THEN /\ Return("failed to extract ELF build ID")
                /\ stdout' = stdout
           ELSE /\ Return("nil")
                /\ stdout' = Append(stdout, f.buildID)
    /\ UNCHANGED <<flags, i, uploads, readers, srcDst, pending, joined, hash, instr,
                   trace, stderr, disk, sourceVars, runVars>>

\* An actor returns: its result goes to the errors channel.
ActorReturns(k, err) ==
    /\ state' = [state EXCEPT ![k] = "returned"]
    /\ errors' = Append(errors, [actor |-> actors[k], err |-> err])
    /\ returns' = Append(returns, [actor |-> actors[k], err |-> err])

\* The execute function of the operation has returned: errors <- its result.
OperationReturns ==
    /\ state # <<>>
    /\ state[1] = "running"
    /\ pc = "done"
    /\ ActorReturns(1, ret)
    /\ UNCHANGED <<flags, runPc, runRet, ctxDone, sigDone, actors, first, sigPending,
                   intr>>
    /\ UNCHANGED notRun

\* os.Interrupt is delivered to the channel signal.Notify registered.
Signal ==
    /\ state # <<>>
    /\ state[2] = "running"
    /\ ~sigPending
    /\ sigPending' = TRUE
    /\ UNCHANGED <<flags, runPc, runRet, ctxDone, sigDone, actors, state, errors,
                   returns, first, intr>>
    /\ UNCHANGED notRun

\* The execute function of the signal handler: select on the signal
\* channel and on the Done channel of its context, a child of the context
\* of run.
SignalHandlerReturns ==
    /\ state # <<>>
    /\ state[2] = "running"
    /\ \/ /\ sigPending
          /\ ActorReturns(2, "received signal")
       \/ /\ ctxDone \/ sigDone
          /\ ActorReturns(2, "context canceled")
    /\ UNCHANGED <<flags, runPc, runRet, ctxDone, sigDone, actors, first, sigPending,
                   intr>>
    /\ UNCHANGED notRun

\* Group.Run, err := <-errors: the first result is received.
GroupFirst ==
    /\ runPc = "first"
    /\ errors # <<>>
    /\ first' = Head(errors)
    /\ errors' = Tail(errors)
    /\ runPc' = "interrupt"
    /\ intr' = 1
    /\ UNCHANGED <<flags, runRet, ctxDone, sigDone, actors, state, returns, sigPending>>
    /\ UNCHANGED notRun

\* Faulty variant of OperationInterrupt: the context is left as it is.
OperationInterrupt_Noop(done) == done

\* The interrupt function of the operation: cancel().
OperationInterrupt(done) == TRUE

\* Group.Run, a.interrupt(err) of the next actor, in the order of g.Add:
\* cancel() of the operation, then the cancel of the signal handler's own
\* context.
GroupInterrupt ==
    /\ runPc = "interrupt"
    /\ IF actors[intr] = SignalActor
       THEN /\ sigDone' = TRUE
            /\ ctxDone' = ctxDone
       ELSE /\ ctxDone' = OperationInterrupt(ctxDone)
            /\ sigDone' = sigDone
    /\ IF intr = Len(actors)
       THEN /\ runPc' = "rest"
            /\ intr' = 0
       ELSE /\ runPc' = runPc
            /\ intr' = intr + 1
    /\ UNCHANGED <<flags, runRet, actors, state, errors, returns, first, sigPending>>
    /\ UNCHANGED notRun

\* Faulty variant of GroupResult: the result received last is returned.
GroupResult_Last(firstErr, lastErr) == lastErr

\* The value Group.Run returns.
GroupResult(firstErr, lastErr) == firstErr

\* Group.Run receives the result of every other actor and returns.
GroupRest ==
    /\ runPc = "rest"
    /\ errors # <<>>
    /\ errors' = Tail(errors)
    /\ IF Len(returns) = Len(actors) /\ Len(errors) = 1
       THEN /\ runPc' = "done"
            /\ runRet' = GroupResult(first.err, Head(errors).err)
       ELSE UNCHANGED <<runPc, runRet>>
    /\ UNCHANGED <<flags, ctxDone, sigDone, actors, state, returns, first, sigPending,
                   intr>>
    /\ UNCHANGED notRun

NextRun ==
    \/ RunSwitch
    \/ GroupStart
    \/ UploadOperation
    \/ ExtractOperation
    \/ SourceOperation
    \/ BuildidOperation
    \/ OperationReturns
    \/ Signal
    \/ SignalHandlerReturns
    \/ GroupFirst
    \/ GroupInterrupt
    \/ GroupRest

SpecRun == InitRun /\ [][NextRun]_vars

(***************************************************************************)
(* Properties of run and its actor group.                                  *)
(***************************************************************************)

\* The operations registered in the group.
RegisteredOperations == {actors[k] : k \in 1..Len(actors)} \ {SignalActor}

\* The actors whose execute function was started.
Started == {actors[k] : k \in DOMAIN state}

\* The results an actor has returned, by position in the order of return.
ReturnsOf(actor) == {k \in 1..Len(returns) : returns[k].actor = actor}

\* run has returned from Group.Run.
GroupReturned == runPc = "done" /\ actors # <<>>

\* The first result of the order of return that is an error; "nil" when
\* there is none.
FirstError ==
    LET failed == {k \in 1..Len(returns) : returns[k].err # "nil"}
    IN  IF failed = {} THEN "nil"
        ELSE returns[CHOOSE k \in failed : \A j \in failed : k <= j].err

\* The operation of command has not taken a step: none of the state it
\* writes has changed.
Untouched(command) ==
    CASE command = UploadCommand -> trace = <<>> /\ uploads = <<>>
      [] command = ExtractCommand -> disk = <<>>
      [] command = SourceCommand -> sink = NoSink /\ archive = <<>> /\ walk = <<>>
      [] OTHER -> TRUE

\* C17: for a known command exactly one operation, the one of the command,
\* is registered, and it is the only one executed, once: no other operation
\* takes a step; for an unknown command run cancels the context and returns
\* an error with no actor registered or started, the signal handler
\* included, and no operation takes a step.
C17_OneOperationPerInvocation ==
    /\ runPc # "switch" =>
        IF flags.Command \in Commands
        THEN /\ RegisteredOperations = {flags.Command}
             /\ Len(actors) = 2
             /\ Started \subseteq {flags.Command, SignalActor}
             /\ Cardinality(ReturnsOf(flags.Command)) <= 1
             /\ runPc = "done" => Cardinality(ReturnsOf(flags.Command)) = 1
        ELSE /\ runPc = "done"
             /\ runRet = "unknown command"
             /\ ctxDone
             /\ actors = <<>>
             /\ state = <<>>
             /\ returns = <<>>
    /\ \A command \in Commands \ {flags.Command} : Untouched(command)
    /\ flags.Command \notin Commands => pc = "buildid" /\ stdout = <<>> /\ stderr = <<>>
    /\ state = <<>> => ret = "running" /\ stdout = <<>> /\ stderr = <<>> /\ trace = <<>>

\* run has returned on a command the switch does not know.
C17_Witness ==
    /\ runPc = "done"
    /\ flags.Command \notin Commands
    /\ runRet = "unknown command"

\* C18: when run has returned the context is cancelled and, if the group
\* ran, both actors have returned; once Group.Run has received the first
\* result and called the interrupt functions, the context the operation
\* works with and the context of the signal handler are both cancelled,
\* whichever actor returned first; the signal handler returns first only
\* on a signal, and the result received first is the one returned first.
C18_FirstReturnCancelsOther ==
    /\ runPc = "done" => ctxDone
    /\ GroupReturned =>
         /\ Len(returns) = 2
         /\ \A k \in DOMAIN state : state[k] = "returned"
         /\ ReturnsOf(SignalActor) # {}
         /\ ReturnsOf(flags.Command) # {}
    /\ (runPc \in {"rest", "done"} /\ first.actor \in Commands) => sigDone /\ ctxDone
    /\ (runPc \in {"rest", "done"} /\ first.actor = SignalActor) => ctxDone
    /\ (runPc = "interrupt" /\ intr > 1) => ctxDone
    /\ first.actor = SignalActor => first.err = "received signal"
    /\ first = NoResult <=> runPc \in {"switch", "start", "first"} \/ actors = <<>>
    /\ (returns # <<>> /\ first # NoResult) => first = returns[1]

\* run has returned after the operation returned first and the signal
\* handler, stopped by it, second.
C18_Witness ==
    /\ GroupReturned
    /\ returns[1].actor = flags.Command
    /\ returns[2] = [actor |-> SignalActor, err |-> "context canceled"]

\* C19 as stated: the result of run is the first error encountered, and an
\* error the operation returns is the result of run.
C19_OperationErrorIsResult ==
    GroupReturned =>
        /\ runRet = FirstError
        /\ \A k \in ReturnsOf(flags.Command) :
              returns[k].err # "nil" => runRet = returns[k].err

\* C19: the result of run is the result of the actor that returned first:
\* the result of the operation, nil or error, when it returned before the
\* signal handler, and the signal error when the signal handler returned
\* first, whatever the operation returns after it; the result of run is an
\* error whenever the operation returned one.
C19_FirstReturnIsResult ==
    GroupReturned =>
        /\ runRet = returns[1].err
        /\ returns[1].actor = SignalActor => runRet = "received signal"
        /\ \A k \in ReturnsOf(flags.Command) :
              /\ returns[k].err = ret
              /\ k = 1 => runRet = returns[k].err
              /\ returns[k].err # "nil" => runRet # "nil"

\* run has returned the signal error after the upload, its call to the
\* store failed, returned an error of its own second.
C19_Witness ==
    /\ GroupReturned
    /\ returns[1].actor = SignalActor
    /\ returns[2] = [actor |-> UploadCommand,
                     err |-> "check if upload should be initiated"]
    /\ runRet = "received signal"

(***************************************************************************)
(* Properties of the upload loop as a whole.                               *)
(***************************************************************************)

\* The dedup check of upload a ended it without an error: the store said
\* no, or the run is a dry run.
StoppedEarly(a) ==
    /\ StepsOf("ShouldInitiateUpload", a) # {}
    /\ Messages("Skipping upload", a) \cup Messages("Not initiating upload", a) # {}

\* MarkUploadFinished of upload a returned without an error.
Finished(a) == \E k \in StepsOf("MarkUploadFinished", a) : trace[k].ok

\* Upload a is between its dedup check and its terminal state.
InFlight(a) ==
    /\ StepsOf("ShouldInitiateUpload", a) # {}
    /\ ~StoppedEarly(a)
    /\ ~Finished(a)
    /\ pc # "done"

\* C22: the artifacts are taken in the order of the paths, the steps of an
\* artifact all come before the steps of the next one, and at most one
\* artifact, the one the loop stands at, is between its dedup check and
\* its terminal state.
C22_OneArtifactAtATime ==
    /\ \A a \in 1..Len(uploads) : uploads[a].path = flags.Paths[a]
    /\ \A k, l \in 1..Len(trace) : trace[k].idx < trace[l].idx => k < l
    /\ \A a \in 1..Len(uploads) : InFlight(a) => a = i
    /\ \A a, b \in 1..Len(uploads) :
         (a < b /\ StepsOf("ShouldInitiateUpload", b) # {}) =>
            StoppedEarly(a) \/ Finished(a)

\* Two artifacts from two different paths, both transmitted and finished.
C22_Witness ==
    /\ pc = "done"
    /\ ret = "nil"
    /\ Len(uploads) = 2
    /\ uploads[1].path # uploads[2].path
    /\ Finished(1)
    /\ Finished(2)
    /\ StepsOf("Transmit", 1) # {}
    /\ StepsOf("Transmit", 2) # {}

\* The errors of the collection of the artifacts, before the upload loop.
CollectErrors ==
    {"create gRPC connection", "open ELF file", "get Build ID",
     "failed to find actionable files", "failed to extract debug information",
     "extracted debug information is empty", "open file", "stat file",
     "file is empty"}

\* The run is collecting the artifacts.
Collecting == pc \in {"grpcConn", "collectExtract", "extractAll", "sizeCheck",
                      "collectAsIs"}

\* C23: the first step of the upload loop comes after every path was
\* collected with a size above zero; a run that returns an error of the
\* collection has made no call to the store and no transmission.
C23_CollectedBeforeFirstCall ==
    /\ Collecting => trace = <<>>
    /\ trace # <<>> =>
         /\ Len(uploads) = Len(flags.Paths)
         /\ \A a \in 1..Len(uploads) : uploads[a].size > 0
    /\ (pc = "done" /\ ret \in CollectErrors) => trace = <<>>
    /\ (pc = "done" /\ trace = <<>>) => ret \in CollectErrors

\* The first of two files was collected, the second and last is empty, and
\* the run returned the error with no call made.
C23_Witness ==
    /\ pc = "done"
    /\ ret \in {"file is empty", "extracted debug information is empty"}
    /\ Len(flags.Paths) = 2
    /\ Len(uploads) >= 1
    /\ uploads[1].size > 0
    /\ trace = <<>>

\* The instructions the store issued for upload a.
InstructionsOf(a) == {trace[q].resp : q \in {n \in StepsOf("InitiateUpload", a) : trace[n].ok}}

\* C24: the three calls to the store for an artifact carry its identifier
\* and the kind of the run, ShouldInitiateUpload and InitiateUpload carry
\* the same force flag, and the transmission and MarkUploadFinished use the
\* instructions, the uploadId among them, that InitiateUpload returned for
\* that artifact and for no other.
C24_SameArtifactInEveryCall ==
    /\ \A k \in 1..Len(trace) :
         trace[k].op \in {"ShouldInitiateUpload", "InitiateUpload",
                          "MarkUploadFinished"} =>
            /\ trace[k].req.BuildId = uploads[trace[k].idx].buildID
            /\ trace[k].req.Type = debuginfoTypeStringToPb(flags.Type)
    /\ \A k \in 1..Len(trace) :
         trace[k].op \in {"ShouldInitiateUpload", "InitiateUpload"} =>
            trace[k].req.Force = flags.Force
    /\ \A k \in 1..Len(trace) :
         trace[k].op = "MarkUploadFinished" =>
            /\ \E ins \in InstructionsOf(trace[k].idx) :
                  trace[k].req.UploadId = ins.uploadId
            /\ \A b \in 1..Len(uploads) :
                  b # trace[k].idx =>
                     \A ins \in InstructionsOf(b) : trace[k].req.UploadId # ins.uploadId
    /\ \A k \in 1..Len(trace) :
         trace[k].op = "Transmit" =>
            /\ \E ins \in InstructionsOf(trace[k].idx) :
                  /\ trace[k].req.uploadId = ins.uploadId
                  /\ trace[k].req.signedUrl = ins.signedUrl
            /\ \A b \in 1..Len(uploads) :
                  b # trace[k].idx =>
                     \A ins \in InstructionsOf(b) : trace[k].req.uploadId # ins.uploadId

\* Two artifacts of a kind other than debuginfo, each finished under the
\* uploadId of its own InitiateUpload.
C24_Witness ==
    /\ flags.Type # "debuginfo"
    /\ Len(uploads) = 2
    /\ Finished(1)
    /\ Finished(2)
    /\ \E k1 \in StepsOf("MarkUploadFinished", 1), k2 \in StepsOf("MarkUploadFinished", 2) :
          trace[k1].req.UploadId # trace[k2].req.UploadId

(***************************************************************************)
(* Properties of the source command: order and errors.                     *)
(***************************************************************************)

\* The paths among the first k line-table files that exist on disk, each
\* once, in the order of their first occurrence.
RECURSIVE FirstOccurrences(_)
FirstOccurrences(k) ==
    IF k = 0 THEN <<>>
    ELSE LET prev == FirstOccurrences(k - 1)
             name == refs[k].name
         IN  IF \/ name = NilFile
                \/ ~SourceFS[name].exists
                \/ \E n \in 1..Len(prev) : prev[n] = name
             THEN prev
             ELSE Append(prev, name)

\* C25: when the command succeeds the entries of the output archive are,
\* in this order, the existing paths in the order of their first occurrence
\* in the traversal, which goes through the compile units in stream order;
\* each entry has the path as the line table names it, the size of the
\* file and its bytes.
C25_OutputArchiveInDiscoveryOrder ==
    LET found == FirstOccurrences(Len(refs))
    IN  /\ \A k, l \in 1..Len(refs) : k < l => refs[k].unit <= refs[l].unit
        /\ SourceSucceeded =>
             /\ Len(OutputArchive) = Len(found)
             /\ \A k \in 1..Len(OutputArchive) :
                  /\ OutputArchive[k].name = found[k]
                  /\ OutputArchive[k].size = Len(SourceFS[found[k]].data)
                  /\ OutputArchive[k].data = SourceFS[found[k]].data

\* What the run returns for each answer that is an error other than a
\* missing file.
FatalAnswers ==
    [a \in {"Next: error", "LineReader: error", "file: open error",
            "file: stat file", "file: write tar header",
            "file: copy file to tar", "file: close file"} |->
        CASE a = "Next: error" -> "read DWARF entry"
          [] a = "LineReader: error" -> "get line reader"
          [] a = "file: open error" -> "open file"
          [] a = "file: stat file" -> "stat file"
          [] a = "file: write tar header" -> "write tar header"
          [] a = "file: copy file to tar" -> "copy file to tar"
          [] OTHER -> "close file"]

\* C26: an error of the DWARF reader, of the line reader, of os.Open other
\* than a missing file, or of the stat, the header, the copy or the close
\* is the last thing the traversal sees: the run has returned that error,
\* nothing was opened or enumerated after it, and of the failing file at
\* most its own entry was begun.  A missing file never ends the traversal.
\* Without such an error the traversal ends when, and only when, the
\* reader reports the end of the entries, and the run returns nil.
C26_OnlyMissingFilesTolerated ==
    /\ \A k \in 1..Len(walk) :
         walk[k] \in DOMAIN FatalAnswers =>
            /\ k = Len(walk)
            /\ pc = "done"
            /\ ret = FatalAnswers[walk[k]]
    /\ \A k \in 1..Len(walk) :
         walk[k] = "Next: nil" => k = Len(walk) /\ pc = "done" /\ ret = "nil"
    /\ (pc = "done" /\ walk # <<>>) =>
          walk[Len(walk)] \in DOMAIN FatalAnswers \cup {"Next: nil"}
    /\ (pc = "done" /\ ret \in FileErrors) =>
          /\ refs[Len(refs)].name = opens[Len(opens)]
          /\ \A k \in 1..Len(archive) :
                archive[k].data # SourceFS[archive[k].name].data => k = Len(archive)
    /\ SourceSucceeded <=> (walk # <<>> /\ walk[Len(walk)] = "Next: nil")

\* A run that archived a file, skipped the missing one and then returned
\* the error of a file it could not open.
C26_Witness ==
    /\ pc = "done"
    /\ ret = "open file"
    /\ Len(archive) = 1
    /\ WarningsOf("gone.h") # {}
    /\ opens[Len(opens)] = "deny.c"

\* C28: when the source command returns nil the tar writer and the zstd
\* writer were closed, in this order, before the output file, and all
\* entries written can be read back from the file.
C28_ArchiveFinalized ==
    SourceSucceeded =>
        /\ Finalized(sink.closed)
        /\ sink.onDisk = Len(archive)

(***************************************************************************)
(* Termination of the upload run.                                          *)
(***************************************************************************)

\* The steps of the loop body that are still to come at pc, this one
\* included.
StepsLeft ==
    CASE pc = "shouldInitiate" -> 7
      [] pc = "hash" -> 6
      [] pc = "seek" -> 5
      [] pc = "initiate" -> 4
      [] pc = "dispatch" -> 3
      [] pc = "transmit" -> 2
      [] pc = "markFinished" -> 1
      [] OTHER -> 0

\* An upper bound on the number of steps the run can still take: every
\* step of the run makes it smaller.
Measure ==
    LET n == Len(flags.Paths)
    IN  CASE pc = "grpcConn" -> 11 * n + 10
          [] pc \in {"collectExtract", "collectAsIs"} -> 10 * n + 5 + (n - i)
          [] pc = "extractAll" -> 9 * n + 3 + Cardinality(pending)
          [] pc = "sizeCheck" -> 8 * n + 1 + (n - i)
          [] pc = "done" -> 0
          [] OTHER -> 8 * (Len(uploads) - i) + StepsLeft

\* The store told the run to skip upload a.
SkippedByServer(a) == Messages("Skipping upload", a) # {}

\* The dry run stopped upload a.
StoppedForDryRun(a) == Messages("Not initiating upload", a) # {}

\* The number of terminal states upload a is in.
TerminalStates(a) ==
    Cardinality({t \in {"SkippedByServer", "StoppedForDryRun", "Finished"} :
                    CASE t = "SkippedByServer" -> SkippedByServer(a)
                      [] t = "StoppedForDryRun" -> StoppedForDryRun(a)
                      [] OTHER -> Finished(a)})

\* What C27 says of each state: no step is stuck before the run is over;
\* after a run that returned nil every artifact is in exactly one terminal
\* state; after a run that returned an error the artifacts before the one
\* the loop stands at are in exactly one terminal state, that one alone
\* can be started and not terminal, and the later ones were never started.
C27_TerminalStates ==
    /\ Measure >= 0
    /\ Measure = 0 <=> pc = "done"
    /\ pc \in {"collectExtract", "collectAsIs"} => i \in 1..Len(flags.Paths)
    /\ pc = "extractAll" => pending # {}
    /\ pc \in {"sizeCheck", "shouldInitiate", "hash", "seek", "initiate", "dispatch",
               "transmit", "markFinished"} => i \in 1..Len(uploads)
    /\ (pc = "done" /\ ret = "nil") =>
          /\ Len(uploads) = Len(flags.Paths)
          /\ \A a \in 1..Len(uploads) : TerminalStates(a) = 1
    /\ (pc = "done" /\ Failed) =>
          \A a \in 1..Len(uploads) :
             /\ TerminalStates(a) <= 1
             /\ (StepsOf("ShouldInitiateUpload", a) # {} /\ TerminalStates(a) = 0) =>
                   a = i
             /\ (trace # <<>> /\ a < i) => TerminalStates(a) = 1
             /\ (trace # <<>> /\ a > i) => \A k \in 1..Len(trace) : trace[k].idx # a

\* C27: the upload run terminates, every step making the number of steps
\* left smaller, and ends with every artifact in exactly one terminal
\* state when it returns nil, and with at most one started artifact not in
\* a terminal state, and no later artifact started, when it returns an
\* error.
C27_TerminatesInTerminalStates ==
    /\ []C27_TerminalStates
    /\ [][Measure' < Measure]_vars

\* A run over two artifacts that returned the error of the transmission of
\* the second after the first was finished.
C27_Witness ==
    /\ pc = "done"
    /\ ret = "upload"
    /\ Len(uploads) = 2
    /\ Finished(1)
    /\ i = 2
    /\ StepsOf("Transmit", 2) # {}

(***************************************************************************)
(* Properties of the identifiers the upload run sends.                     *)
(***************************************************************************)

\* The calls to the store that carry the identifier of the artifact.
IdentifiedOps == {"ShouldInitiateUpload", "InitiateUpload", "MarkUploadFinished"}

\* C29: no ShouldInitiateUpload, InitiateUpload or MarkUploadFinished
\* request is sent with an empty identifier, whatever the kind, the
\* skip-extraction flag and the explicitly supplied identifier are.
C29_IdentifierNeverEmpty ==
    \A k \in 1..Len(trace) :
        trace[k].op \in IdentifiedOps => trace[k].req.BuildId # ""

\* The calls of the run that started an upload under identifier id.
InitiatedUnder(id) ==
    {k \in 1..Len(trace) : trace[k].op = "InitiateUpload" /\ trace[k].req.BuildId = id}

\* C30: in one run at most one InitiateUpload, one transmission and one
\* MarkUploadFinished is sent per identifier (the kind is the same for the
\* whole run): no two artifacts are uploaded under the same identifier.
C30_OneUploadPerIdentifier ==
    /\ \A k \in 1..Len(trace) :
         trace[k].op = "InitiateUpload" =>
            Cardinality(InitiatedUnder(trace[k].req.BuildId)) <= 1
    /\ \A k, l \in 1..Len(trace) :
         ( /\ trace[k].op = "MarkUploadFinished"
           /\ trace[l].op = "MarkUploadFinished"
           /\ trace[k].req.BuildId = trace[l].req.BuildId ) => k = l
    /\ \A k, l \in 1..Len(trace) :
         ( /\ trace[k].op = "Transmit"
           /\ trace[l].op = "Transmit"
           /\ uploads[trace[k].idx].buildID = uploads[trace[l].idx].buildID ) => k = l

(***************************************************************************)
(* Properties of the scratch buffers of upload with extraction.            *)
(***************************************************************************)

\* The upload run has collected every path in the extraction branch.
ExtractCollected ==
    /\ UseExtract(flags)
    /\ Len(uploads) = Len(flags.Paths)
    /\ pc \notin {"grpcConn", "collectExtract"}

\* extractAll has returned nil to the upload run.
Extracted ==
    /\ ExtractCollected
    /\ pc # "extractAll"
    /\ ret # "failed to extract debug information"

\* C31: once the paths are collected in the extraction branch every
\* artifact has a scratch buffer of its own, which is the destination of
\* the extraction job of its path, and there are as many jobs as
\* artifacts; after a successful extraction the content of every artifact
\* is the output of the reducer for its path.  The same path may appear
\* more than once in the list.
C31_OneBufferPerArtifact ==
    /\ ExtractCollected =>
         /\ \A a, b \in 1..Len(uploads) :
               a # b => uploads[a].reader # uploads[b].reader
         /\ \A a \in 1..Len(uploads) :
               /\ uploads[a].path \in DOMAIN srcDst
               /\ srcDst[uploads[a].path] = uploads[a].reader
         /\ Cardinality(DOMAIN srcDst) = Len(uploads)
    /\ Extracted =>
         \A a \in 1..Len(uploads) : Content(a) = FS[uploads[a].path].reduced

====
